---------------------------- MODULE Spec2Model ----------------------------
(***************************************************************************)
(* A model of the Hastrology AI server core:                               *)
(*   ai_server/src/services/ephemeris_service.py   (EphemerisService)      *)
(*   ai_server/src/services/horoscope_service.py   (HoroscopeService)      *)
(*   ai_server/src/models/request_models.py        (HoroscopeRequest)      *)
(*   ai_server/src/routes/horoscope_routes.py      (the HTTP route)        *)
(*                                                                         *)
(* Text inputs (a birth date, a birth time) are modelled by their lexical  *)
(* shape and the numbers written in them, so that parsing is a computation *)
(* on the text.  Times are kept in integer units (seconds, minutes), a     *)
(* Julian Day as whole days and seconds, an angle in degrees.              *)
(*                                                                         *)
(* The module holds several specifications over one set of variables:      *)
(*   SpecHouses   whole-sign house assignment                              *)
(*   SpecTime     _parse_time and the datetime.replace that consumes it    *)
(*   SpecJulian   datetime_to_julian on pairs of civil date-times          *)
(*   SpecChart    calculate_chart, one thread, every outcome of the        *)
(*                ephemeris library                                        *)
(*   SpecConc     calculate_chart, two threads interleaved                 *)
(*   Spec         request validation and generate_horoscope                *)
(*   SpecAge      _calculate_age and the profection house                  *)
(*   SpecService  construction and use of an EphemerisService              *)
(*   SpecCdo      _build_cdo_context: natal chart, then transits           *)
(***************************************************************************)
EXTENDS Integers, Sequences, FiniteSets, TLC

VARIABLES
    \* ---- SpecHouses: _assign_whole_sign_houses
    hs_asc,         \* asc_sign_index handed to _assign_whole_sign_houses
    hs_planets,     \* the planets dict: name -> [sign, house]
    hs_pc,          \* "init" | "assigned"
    \* ---- SpecTime: _parse_time
    tm_in,          \* the birth_time text
    tm_out,         \* the (hour, minute) returned, or NoValue
    tm_pc,          \* "init" | "parsed" | "replaced" | "raised"
    \* ---- SpecJulian: datetime_to_julian
    jl_a,           \* first call: [dt, off]
    jl_b,           \* second call: [dt, off]
    jl_jd,          \* <<jd of a, jd of b>> once computed
    jl_pc,          \* "init" | "done"
    \* ---- SpecChart / SpecConc: calculate_chart
    swe_tls,        \* the library build keeps its state per thread (TRUE) or per process
    swe_topo,       \* the library's topocentric observer, as each thread sees it
    ch,             \* per thread: the frame of its calculate_chart call
    \* ---- Spec: the request pipeline
    cdo_enabled,    \* HoroscopeService.cdo_enabled, fixed at construction
    cache,          \* cache_service: key -> [card, place]: the stored card, and
                    \* (for the record) the coordinates of the request it was made for
    req,            \* the generate_horoscope call awaiting the language model
    resp,           \* the response to the latest request, once given
    \* ---- SpecAge: _calculate_age and the profection house
    ag,             \* the frame of the age computation
    \* ---- SpecService: the life of an EphemerisService
    svc,            \* the service object and what its construction met
    \* ---- SpecCdo: _build_cdo_context and get_current_transits
    ctx,            \* the frame of _build_cdo_context
    \* ---- SpecSeq: calculate_chart and get_current_transits, one call at a time
    seq,            \* what the caller keeps of the charts returned to it
    \* ---- SpecAssets: the lucky assets of generate_horoscope
    la,             \* the colors_to_tickers keys, the color answered, the color kept
    \* ---- SpecZodiac, SpecSummary: the fallback zodiac and summary
    fb              \* the frame of the fallback computation

housesVars  == <<hs_asc, hs_planets, hs_pc>>
timeVars    == <<tm_in, tm_out, tm_pc>>
julianVars  == <<jl_a, jl_b, jl_jd, jl_pc>>
chartVars   == <<swe_tls, swe_topo, ch>>
requestVars == <<cdo_enabled, cache, req, resp>>
ageVars     == <<ag>>
serviceVars == <<svc>>
contextVars == <<ctx>>
sequenceVars == <<seq>>
assetVars   == <<la>>
fallbackVars == <<fb>>
vars == <<housesVars, timeVars, julianVars, chartVars, requestVars,
          ageVars, serviceVars, contextVars, sequenceVars, assetVars,
          fallbackVars>>

NoValue == "none"

\* No request in flight; no response yet.
NoRequest == [active |-> FALSE]
NoResponse == [status |-> "none"]

\* The parts of the state a specification does not use stay at these values.
HousesIdle  == hs_asc = 0 /\ hs_planets = <<>> /\ hs_pc = "off"
TimeIdle    == tm_in = NoValue /\ tm_out = NoValue /\ tm_pc = "off"
JulianIdle  == jl_a = NoValue /\ jl_b = NoValue /\ jl_jd = NoValue /\ jl_pc = "off"
ChartIdle   == swe_tls = FALSE /\ swe_topo = <<>> /\ ch = <<>>
RequestIdle ==
    cdo_enabled = FALSE /\ cache = <<>> /\ req = NoRequest /\ resp = NoResponse
AgeIdle     == ag = [pc |-> "off"]
ServiceIdle == svc = [pc |-> "off"]
ContextIdle == ctx = [pc |-> "off"]
SequenceIdle == seq = [pc |-> "off"]
AssetIdle   == la = [pc |-> "off"]
FallbackIdle == fb = [pc |-> "off"]

(***************************************************************************)
(* Calendar (what datetime / strptime accept as a date).                   *)
(***************************************************************************)
IsLeap(y) == (y % 4 = 0 /\ y % 100 # 0) \/ y % 400 = 0

DaysInMonth(y, m) ==
    IF m = 2 THEN (IF IsLeap(y) THEN 29 ELSE 28)
    ELSE IF m \in {4, 6, 9, 11} THEN 30 ELSE 31

\* datetime(year, month, day) raises ValueError unless this holds.
ValidDate(y, m, d) ==
    /\ y \in 1..9999
    /\ m \in 1..12
    /\ d >= 1 /\ d <= DaysInMonth(y, m)

(***************************************************************************)
(* Zodiac and whole-sign houses (ephemeris_service.py).                    *)
(***************************************************************************)
ZODIAC_SIGNS ==
    << "Aries", "Taurus", "Gemini", "Cancer", "Leo", "Virgo",
       "Libra", "Scorpio", "Sagittarius", "Capricorn", "Aquarius", "Pisces" >>

\* ZODIAC_SIGNS[i] for a 0-based Python index i.
SignAt(i) == ZODIAC_SIGNS[i + 1]

\* ZODIAC_SIGNS.index(sign): the 0-based index of the first occurrence.
SignIndex(sign) ==
    (CHOOSE k \in 1..Len(ZODIAC_SIGNS) :
        /\ ZODIAC_SIGNS[k] = sign
        /\ \A j \in 1..(k - 1) : ZODIAC_SIGNS[j] # sign) - 1

\* A mutation of WholeSignHouse: the operands of the subtraction swapped.
WholeSignHouseSwapped(planet_sign_index, asc_sign_index) ==
    ((asc_sign_index - planet_sign_index) % 12) + 1

\* house = ((planet_sign_index - asc_sign_index) % 12) + 1
WholeSignHouse(planet_sign_index, asc_sign_index) ==
    ((planet_sign_index - asc_sign_index) % 12) + 1

\* _assign_whole_sign_houses: every planet of the dict gets its house; the
\* sign index is recovered from the sign name stored in the PlanetData.
AssignWholeSignHouses(planets, asc_sign_index) ==
    [ p \in DOMAIN planets |->
        [ planets[p] EXCEPT
            !.house = WholeSignHouse(SignIndex(planets[p].sign), asc_sign_index) ] ]

\* The planets whose placement SpecHouses enumerates.
HousePlanets == {"Sun", "Moon"}

InitHouses ==
    /\ hs_asc \in 0..11
    /\ hs_planets \in [ HousePlanets ->
                          { [sign |-> SignAt(i), house |-> 1] : i \in 0..11 } ]
    /\ hs_pc = "init"
    /\ TimeIdle /\ JulianIdle /\ ChartIdle /\ RequestIdle /\ AgeIdle /\ ServiceIdle /\ ContextIdle
    /\ SequenceIdle /\ AssetIdle /\ FallbackIdle

AssignHouses ==
    /\ hs_pc = "init"
    /\ hs_planets' = AssignWholeSignHouses(hs_planets, hs_asc)
    /\ hs_pc' = "assigned"
    /\ UNCHANGED <<hs_asc, timeVars, julianVars, chartVars, requestVars,
                 ageVars, serviceVars, contextVars,
                 sequenceVars, assetVars, fallbackVars>>

NextHouses == AssignHouses

SpecHouses == InitHouses /\ [][NextHouses]_vars

\* C1: after _assign_whole_sign_houses, every planet's house is
\* ((p - a) mod 12) + 1 for its sign index p and the ascendant sign index a,
\* lies in 1..12, and is 1 exactly when the planet is in the ascendant's
\* sign; for the fixed a the rule maps the 12 signs one-to-one onto 1..12.
C1_WholeSignHouses ==
    hs_pc = "assigned" =>
        /\ \A p \in DOMAIN hs_planets :
              LET s == SignIndex(hs_planets[p].sign)
                  d == s - hs_asc
                  h == hs_planets[p].house
              IN  /\ h \in 1..12
                  /\ h = (IF d >= 0 THEN d ELSE d + 12) + 1
                  /\ (h = 1 <=> hs_planets[p].sign = SignAt(hs_asc))
        /\ \A p, q \in DOMAIN hs_planets :
              hs_planets[p].house = hs_planets[q].house
                  <=> hs_planets[p].sign = hs_planets[q].sign
        /\ { WholeSignHouse(s, hs_asc) : s \in 0..11 } = 1..12

\* C1 witness: a planet behind the ascendant (p < a) has been placed, and
\* another one sits in the ascendant's sign.
C1_Witness ==
    /\ hs_pc = "assigned"
    /\ hs_asc = 9
    /\ hs_planets["Sun"].sign = "Gemini" /\ hs_planets["Sun"].house = 6
    /\ hs_planets["Moon"].sign = "Capricorn" /\ hs_planets["Moon"].house = 1

(***************************************************************************)
(* _parse_time (horoscope_service.py).                                     *)
(*                                                                         *)
(* A birth_time text is [shape, h, m, period]:                             *)
(*   "empty"  the empty string                                             *)
(*   "blank"  whitespace only                                              *)
(*   "hm"     "<h>:<mm>" then optional blanks and <period>; h is written   *)
(*            with one or two digits, mm with exactly two                  *)
(*   "h_m"    "<h>:<m>" with a one-digit minute, e.g. "4:5"                *)
(*   "words"  text that does not start with a digit, e.g. "morning"        *)
(* period is "" (absent) or one of AM, PM, am, pm.                         *)
(***************************************************************************)
MaxHourText == 25      \* hours written in a text range over 0..MaxHourText
MaxMinuteText == 61    \* minutes written in a text range over 0..MaxMinuteText

Periods == {"", "AM", "PM", "am", "pm"}

TimeText(shape, h, m, period) ==
    [shape |-> shape, h |-> h, m |-> m, period |-> period]

TimeInputs ==
    { TimeText("hm", h, m, p) :
        h \in 0..MaxHourText, m \in 0..MaxMinuteText, p \in Periods }
    \cup { TimeText("h_m", h, m, "") : h \in {4, 16}, m \in {5} }
    \cup { TimeText(sh, 0, 0, "") : sh \in {"empty", "blank", "words"} }

\* birth_time.strip()
StripTime(t) == IF t.shape = "blank" THEN [t EXCEPT !.shape = "empty"] ELSE t

\* period.upper()
Upper(period) ==
    CASE period = "am" -> "AM"
      [] period = "pm" -> "PM"
      [] OTHER -> period

\* re.match(r'(\d{1,2}):(\d{2})\s*(AM|PM|am|pm)?', s): the groups, or no match.
MatchTime12(s) ==
    IF s.shape = "hm"
    THEN [ok |-> TRUE, hour |-> s.h, minute |-> s.m, period |-> s.period]
    ELSE [ok |-> FALSE]

\* re.match(r'(\d{1,2}):(\d{2})', s): the groups, or no match.
MatchTime24(s) ==
    IF s.shape = "hm"
    THEN [ok |-> TRUE, hour |-> s.h, minute |-> s.m]
    ELSE [ok |-> FALSE]

\* A mutation of AdjustPeriod: the PM branch without its "hour != 12" test.
AdjustPeriodNoTwelve(hour, period) ==
    IF period # ""
    THEN IF Upper(period) = "PM" THEN hour + 12
         ELSE IF Upper(period) = "AM" /\ hour = 12 THEN 0
         ELSE hour
    ELSE hour

\* lines 163-167: the hour after the AM/PM adjustment.
AdjustPeriod(hour, period) ==
    IF period # ""
    THEN IF Upper(period) = "PM" /\ hour # 12 THEN hour + 12
         ELSE IF Upper(period) = "AM" /\ hour = 12 THEN 0
         ELSE hour
    ELSE hour

\* A mutation of NoonDefault: midnight.
MidnightDefault == <<0, 0>>

\* line 177: "Default to noon".
NoonDefault == <<12, 0>>

\* _parse_time(birth_time) -> (hour, minute)
ParseTime(birth_time) ==
    LET s   == StripTime(birth_time)
        m12 == MatchTime12(s)
        m24 == MatchTime24(s)
    IN  IF m12.ok
        THEN <<AdjustPeriod(m12.hour, m12.period), m12.minute>>
        ELSE IF m24.ok
        THEN <<m24.hour, m24.minute>>
        ELSE NoonDefault

\* datetime.replace(hour=hour, minute=minute) raises ValueError unless this holds.
ReplaceAccepts(hour, minute) == hour \in 0..23 /\ minute \in 0..59

InitTime ==
    /\ tm_in \in TimeInputs
    /\ tm_out = NoValue
    /\ tm_pc = "init"
    /\ HousesIdle /\ JulianIdle /\ ChartIdle /\ RequestIdle /\ AgeIdle /\ ServiceIdle /\ ContextIdle
    /\ SequenceIdle /\ AssetIdle /\ FallbackIdle

\* _build_cdo_context line 219: hour, minute = self._parse_time(birth_time)
ParseTimeStep ==
    /\ tm_pc = "init"
    /\ tm_out' = ParseTime(tm_in)
    /\ tm_pc' = "parsed"
    /\ UNCHANGED <<tm_in, housesVars, julianVars, chartVars, requestVars,
                 ageVars, serviceVars, contextVars,
                 sequenceVars, assetVars, fallbackVars>>

\* _build_cdo_context line 220: birth_date.replace(hour=hour, minute=minute)
ReplaceStep ==
    /\ tm_pc = "parsed"
    /\ tm_pc' = IF ReplaceAccepts(tm_out[1], tm_out[2]) THEN "replaced" ELSE "raised"
    /\ UNCHANGED <<tm_in, tm_out, housesVars, julianVars, chartVars, requestVars,
                 ageVars, serviceVars, contextVars,
                 sequenceVars, assetVars, fallbackVars>>

NextTime == ParseTimeStep \/ ReplaceStep

SpecTime == InitTime /\ [][NextTime]_vars

TimeParsed == tm_pc \in {"parsed", "replaced", "raised"}

\* The texts that denote a time of day: H:MM AM/PM with H in 1..12, or HH:MM
\* with HH in 0..23, MM in 00..59.
ValidTimeText(t) ==
    /\ t.shape = "hm"
    /\ t.m \in 0..59
    /\ IF t.period = "" THEN t.h \in 0..23 ELSE t.h \in 1..12

\* C6 (as claimed): every text that is not a valid time of day is answered
\* with noon, and the replace() that consumes the answer never raises.
C6_BadTimeGivesNoon ==
    (TimeParsed /\ ~ValidTimeText(tm_in)) =>
        (tm_out = <<12, 0>> /\ tm_pc # "raised")

\* C7: an empty or whitespace-only birth time gives (12, 0), and the
\* replace() that follows accepts it.
C7_EmptyTimeIsNoon ==
    (TimeParsed /\ tm_in.shape \in {"empty", "blank"}) =>
        (tm_out = <<12, 0>> /\ tm_pc # "raised")

\* C7 witness: a whitespace-only text went through _parse_time and replace().
C7_Witness ==
    tm_pc = "replaced" /\ tm_in.shape = "blank" /\ tm_out = <<12, 0>>

\* C8: a valid 12-hour or 24-hour text is converted to the 24-hour
\* (hour, minute): 12 AM -> 0, 12 PM -> 12, H PM -> H + 12, H AM -> H,
\* HH -> HH; the minute is kept and the hour lies in 0..23.
C8_ValidTimeConverted ==
    (TimeParsed /\ ValidTimeText(tm_in)) =>
        /\ tm_out[2] = tm_in.m
        /\ tm_out[1] \in 0..23
        /\ tm_in.period = "" => tm_out[1] = tm_in.h
        /\ (tm_in.period \in {"AM", "am"} /\ tm_in.h = 12) => tm_out[1] = 0
        /\ (tm_in.period \in {"AM", "am"} /\ tm_in.h # 12) => tm_out[1] = tm_in.h
        /\ (tm_in.period \in {"PM", "pm"} /\ tm_in.h = 12) => tm_out[1] = 12
        /\ (tm_in.period \in {"PM", "pm"} /\ tm_in.h # 12) => tm_out[1] = tm_in.h + 12
        /\ tm_pc # "raised"

\* C8 witness: "12:30 pm" was converted to (12, 30) and accepted by replace().
C8_Witness ==
    /\ tm_pc = "replaced"
    /\ tm_in.shape = "hm" /\ tm_in.period = "pm"
    /\ <<tm_in.h, tm_in.m>> = <<12, 30>>
    /\ tm_out = <<12, 30>>


(***************************************************************************)
(* datetime_to_julian (ephemeris_service.py).                              *)
(*                                                                         *)
(* A datetime is [year, month, day, hour, minute, second, microsecond]; a  *)
(* timezone_offset (hours, a float in the code) is a count of minutes; a   *)
(* Julian Day is <<n, s>>, standing for the real number n + s / 86400 with *)
(* n an integer and s in 0..86399: exact for whole seconds.                *)
(***************************************************************************)
Datetime(y, mo, d, h, mi, sec, us) ==
    [year |-> y, month |-> mo, day |-> d,
     hour |-> h, minute |-> mi, second |-> sec, microsecond |-> us]

\* swe.julday(year, month, day, hour) for the Gregorian calendar and a year
\* >= 1 (every datetime), the hour given in seconds:
\*   u = year, less 1 when month < 3;  u0 = u + 4712;
\*   u1 = month + 1, plus 12 when that is below 4;
\*   jd = floor(u0 * 365.25) + floor(30.6 * u1 + 0.000001) + day + hour / 24 - 63.5
\*        - (floor(u / 100) - floor(u / 400)) + 2
\* The hour enters linearly and is not reduced to 0..24.
Julday(year, month, day, hour_sec) ==
    LET u  == IF month < 3 THEN year - 1 ELSE year
        u0 == u + 4712
        u1 == IF month + 1 < 4 THEN month + 13 ELSE month + 1
        u2 == (u \div 100) - (u \div 400)
        days == ((1461 * u0) \div 4) + ((306 * u1) \div 10) + day - u2 + 2
        \* days + hour / 24 - 63.5  =  (days - 64) + (hour_sec + 43200) / 86400
    IN  << days - 64 + ((hour_sec + 43200) \div 86400),
           (hour_sec + 43200) % 86400 >>

\* Order of two Julian Days.
JdLess(a, b) == a[1] < b[1] \/ (a[1] = b[1] /\ a[2] < b[2])

\* A mutation of DatetimeToJulian: dt.second left out of utc_hour.
DatetimeToJulianNoSeconds(dt, timezone_offset) ==
    Julday(dt.year, dt.month, dt.day,
           dt.hour * 3600 + dt.minute * 60 - timezone_offset * 60)

\* A mutation of DatetimeToJulian: the offset added instead of subtracted.
DatetimeToJulianOffsetAdded(dt, timezone_offset) ==
    Julday(dt.year, dt.month, dt.day,
           dt.hour * 3600 + dt.minute * 60 + dt.second + timezone_offset * 60)

\* utc_hour = dt.hour + dt.minute / 60.0 + dt.second / 3600.0 - timezone_offset
\* jd = swe.julday(dt.year, dt.month, dt.day, utc_hour)
\* (dt.microsecond is not read.)
DatetimeToJulian(dt, timezone_offset) ==
    Julday(dt.year, dt.month, dt.day,
           dt.hour * 3600 + dt.minute * 60 + dt.second - timezone_offset * 60)

\* The civil dates and times of day SpecJulian enumerates: both sides of a
\* midnight, a month end, a year end, 29 February, a century year without one.
JulianDates ==
    { <<1995, 4, 19>>, <<1995, 4, 20>>, <<1995, 12, 31>>, <<1996, 1, 1>>,
      <<1996, 2, 28>>, <<1996, 2, 29>>, <<1996, 3, 1>>,
      <<1900, 2, 28>>, <<1900, 3, 1>>, <<2000, 2, 29>>, <<2000, 3, 1>> }

JulianTimes ==
    { <<0, 0, 0, 0>>, <<0, 0, 0, 1>>, <<0, 0, 1, 0>>, <<5, 30, 0, 0>>,
      <<11, 0, 0, 0>>, <<16, 30, 0, 0>>, <<18, 30, 0, 0>>, <<23, 59, 59, 0>> }

JulianDatetimes ==
    { Datetime(d[1], d[2], d[3], t[1], t[2], t[3], t[4]) :
        d \in JulianDates, t \in JulianTimes }

\* UTC offsets in minutes: -5.5 h, 0, +5.5 h.
JulianOffsets == {-330, 0, 330}

InitJulian ==
    /\ jl_a \in [dt : JulianDatetimes, off : JulianOffsets]
    /\ jl_b \in [dt : JulianDatetimes, off : JulianOffsets]
    /\ jl_jd = NoValue
    /\ jl_pc = "init"
    /\ HousesIdle /\ TimeIdle /\ ChartIdle /\ RequestIdle /\ AgeIdle /\ ServiceIdle /\ ContextIdle
    /\ SequenceIdle /\ AssetIdle /\ FallbackIdle

\* Two calls of datetime_to_julian.
ComputeJulian ==
    /\ jl_pc = "init"
    /\ jl_jd' = << DatetimeToJulian(jl_a.dt, jl_a.off),
                   DatetimeToJulian(jl_b.dt, jl_b.off) >>
    /\ jl_pc' = "done"
    /\ UNCHANGED <<jl_a, jl_b, housesVars, timeVars, chartVars, requestVars,
                 ageVars, serviceVars, contextVars,
                 sequenceVars, assetVars, fallbackVars>>

NextJulian == ComputeJulian

SpecJulian == InitJulian /\ [][NextJulian]_vars

\* Civil order of two datetimes, as Python compares datetime objects.
DtKey(dt) ==
    <<dt.year, dt.month, dt.day, dt.hour, dt.minute, dt.second, dt.microsecond>>

RECURSIVE LexLess(_, _, _)
LexLess(a, b, i) ==
    IF i > Len(a) THEN FALSE
    ELSE IF a[i] # b[i] THEN a[i] < b[i]
    ELSE LexLess(a, b, i + 1)

DtLess(t1, t2) == LexLess(DtKey(t1), DtKey(t2), 1)

\* The same, on the fields down to the second.
DtLessToSecond(t1, t2) ==
    LexLess(SubSeq(DtKey(t1), 1, 6), SubSeq(DtKey(t2), 1, 6), 1)

\* The UTC civil moment of a civil datetime at an offset, by the calendar:
\* the time of day less the offset, rolled over midnight into the day before
\* or after (an offset is less than a day).
DayBefore(y, m, d) ==
    IF d > 1 THEN <<y, m, d - 1>>
    ELSE IF m > 1 THEN <<y, m - 1, DaysInMonth(y, m - 1)>>
    ELSE <<y - 1, 12, 31>>

DayAfter(y, m, d) ==
    IF d < DaysInMonth(y, m) THEN <<y, m, d + 1>>
    ELSE IF m < 12 THEN <<y, m + 1, 1>>
    ELSE <<y + 1, 1, 1>>

UtcMoment(dt, off) ==
    LET sod == dt.hour * 3600 + dt.minute * 60 + dt.second - off * 60
    IN  IF sod < 0
        THEN <<DayBefore(dt.year, dt.month, dt.day), sod + 86400, dt.microsecond>>
        ELSE IF sod >= 86400
        THEN <<DayAfter(dt.year, dt.month, dt.day), sod - 86400, dt.microsecond>>
        ELSE <<<<dt.year, dt.month, dt.day>>, sod, dt.microsecond>>

\* C9 (as claimed): for one offset, t1 < t2 gives jd(t1) < jd(t2).
C9_StrictlyMonotonic ==
    (jl_pc = "done" /\ jl_a.off = jl_b.off /\ DtLess(jl_a.dt, jl_b.dt)) =>
        JdLess(jl_jd[1], jl_jd[2])

\* C9 (amended): for one offset, t1 < t2 gives jd(t1) <= jd(t2), and
\* jd(t1) < jd(t2) when t1 and t2 differ in a field down to the second.
C9_MonotonicToSecond ==
    (jl_pc = "done" /\ jl_a.off = jl_b.off /\ DtLess(jl_a.dt, jl_b.dt)) =>
        /\ ~JdLess(jl_jd[2], jl_jd[1])
        /\ DtLessToSecond(jl_a.dt, jl_b.dt) => JdLess(jl_jd[1], jl_jd[2])

\* The fields of a datetime, in the order of its constructor.
DtFields(dt) ==
    <<dt.year, dt.month, dt.day, dt.hour, dt.minute, dt.second, dt.microsecond>>

\* C9 witness: 23:59:59 on 29 February 1996 and 00:00:00 on 1 March, at
\* +5.5 h (the first has utc_hour >= 0, the second utc_hour < 0): one second
\* of Julian Day apart.
C9_Witness ==
    /\ jl_pc = "done"
    /\ DtFields(jl_a.dt) = <<1996, 2, 29, 23, 59, 59, 0>> /\ jl_a.off = 330
    /\ DtFields(jl_b.dt) = <<1996, 3, 1, 0, 0, 0, 0>> /\ jl_b.off = 330
    /\ jl_jd = << <<2450143, 23399>>, <<2450143, 23400>> >>

\* C10: two (civil datetime, offset) pairs that denote the same UTC moment
\* have the same Julian Day.
C10_SameInstantSameJd ==
    (jl_pc = "done" /\ UtcMoment(jl_a.dt, jl_a.off) = UtcMoment(jl_b.dt, jl_b.off)) =>
        jl_jd[1] = jl_jd[2]

\* C10 witness: 1996-03-01 00:00 at +5.5 h and 1996-02-29 18:30 at 0 (the UTC
\* date is the day before the civil date) got one Julian Day, 2450143.2708...
C10_Witness ==
    /\ jl_pc = "done"
    /\ DtFields(jl_a.dt) = <<1996, 3, 1, 0, 0, 0, 0>> /\ jl_a.off = 330
    /\ DtFields(jl_b.dt) = <<1996, 2, 29, 18, 30, 0, 0>> /\ jl_b.off = 0
    /\ jl_jd[1] = jl_jd[2]
    /\ jl_jd[1] = <<2450143, 23400>>


(***************************************************************************)
(* calculate_chart (ephemeris_service.py).                                 *)
(*                                                                         *)
(* The Swiss Ephemeris library is outside the repository.  Its answers are *)
(* stood in for by fixed functions of the arguments (whole degrees), its   *)
(* failures and the solar altitude by a choice of the environment.  What   *)
(* the model keeps of the library is its state: swe.set_topo stores the    *)
(* observer in the library, and a calc_ut with FLG_TOPOCTR reads it back.  *)
(* A build of the library keeps that state per process or per thread       *)
(* (swe_tls); both builds are modelled.                                    *)
(***************************************************************************)
Threads == {1, 2}

PLANET_NAMES ==
    << "Sun", "Moon", "Mercury", "Venus", "Mars", "Jupiter",
       "Saturn", "Uranus", "Neptune", "Pluto", "TrueNode" >>

PLANET_IDS ==
    [ n \in { PLANET_NAMES[i] : i \in 1..Len(PLANET_NAMES) } |->
        CASE n = "Sun" -> 0      [] n = "Moon" -> 1    [] n = "Mercury" -> 2
          [] n = "Venus" -> 3    [] n = "Mars" -> 4    [] n = "Jupiter" -> 5
          [] n = "Saturn" -> 6   [] n = "Uranus" -> 7  [] n = "Neptune" -> 8
          [] n = "Pluto" -> 9    [] n = "TrueNode" -> 11 ]

\* swe.get_ayanamsa(jd): the precession offset of the sidereal mode, degrees.
GetAyanamsa(jd) == 24

\* swe.calc_ut(jd, planet_id, flags)[0][0]: the ecliptic longitude, in
\* 0..359.  A stand-in: a body moves linearly with the day number; the
\* topocentric parallax shifts the Moon by a degree in the eastern
\* hemisphere; FLG_SIDEREAL subtracts the ayanamsa.
CalcUtLongitude(jd, planet_id, topo, sidereal) ==
    LET tropical == 37 * planet_id + (planet_id + 1) * (jd[1] % 360)
        parallax == IF planet_id = 1 /\ topo # <<>> /\ topo[1] > 0 THEN 1 ELSE 0
        ayanamsa == IF sidereal THEN GetAyanamsa(jd) ELSE 0
    IN  (tropical + parallax - ayanamsa) % 360

\* swe.houses(jd, latitude, longitude, b'P')[1][0:2]: ascendant and MC.  A
\* stand-in: the local sidereal angle (15 degrees an hour, plus the
\* longitude) gives the MC, the ascendant a quarter circle ahead.
SweHouses(jd, latitude, longitude) ==
    LET mc == ((jd[2] \div 240) + longitude + 100 * (jd[1] % 3)) % 360
    IN  [ascendant |-> (mc + 90 + latitude \div 10) % 360, mc |-> mc]

\* A mutation of SetTopo: an observer already set is replaced only by one
\* further east.
SetTopoEastward(topo, t, observer) ==
    IF topo[t] # <<>> /\ observer[1] < topo[t][1]
    THEN topo
    ELSE [u \in Threads |-> observer]

\* swe.set_topo(longitude, latitude, 0) by thread t: the observer is stored
\* for the calling thread alone (a thread-local build) or for every thread.
SetTopo(topo, t, observer) ==
    IF swe_tls
    THEN [topo EXCEPT ![t] = observer]
    ELSE [u \in Threads |-> observer]

\* A mutation of IsDayChart: an altitude of 0 counts as day.
IsDayChartOrHorizon(sun_altitude) == sun_altitude >= 0

\* line 210: is_day_chart = sun_altitude > 0
IsDayChart(sun_altitude) == sun_altitude > 0

\* _calculate_altitude: what swe.azalt answers, or 0.0 when it raises.
\* outcome is [raised, altitude]: the call raised, or gave the altitude
\* (degrees).
CalculateAltitude(outcome) == IF outcome.raised THEN 0 ELSE outcome.altitude

\* A mutation of PlanetDataOf: the sign nearest to the longitude's cusp
\* (rounding in place of truncation).
PlanetDataOfNearestSign(planet_name, planet_longitude, topo) ==
    [ planet      |-> planet_name,
      longitude   |-> planet_longitude,
      sign        |-> SignAt(((planet_longitude + 15) \div 30) % 12),
      sign_degree |-> planet_longitude % 30,
      house       |-> 1,
      topo        |-> topo ]

\* One PlanetData of the loop at lines 214-229 (house is the dataclass
\* default 1 until _assign_whole_sign_houses); topo notes the observer the
\* library used for the query.
PlanetDataOf(planet_name, planet_longitude, topo) ==
    [ planet      |-> planet_name,
      longitude   |-> planet_longitude,
      sign        |-> SignAt(planet_longitude \div 30),
      sign_degree |-> planet_longitude % 30,
      house       |-> 1,
      topo        |-> topo ]

IdleFrame ==
    [ pc |-> "idle", birth_datetime |-> NoValue, latitude |-> 0, longitude |-> 0,
      timezone_offset |-> 0, use_sidereal |-> FALSE,
      jd |-> <<0, 0>>, ayanamsa_value |-> 0,
      ascendant |-> 0, mc |-> 0, asc_sign_index |-> 0,
      sun_topo |-> <<>>, alt_raised |-> FALSE,
      sun_altitude |-> 0, is_day_chart |-> FALSE,
      i |-> 1, failures |-> 0, planets |-> <<>> ]

\* The arguments of a call: [birth_datetime, latitude, longitude,
\* timezone_offset, use_sidereal].
ChartArgs(datetimes, places, offsets, frames) ==
    [ birth_datetime : datetimes, place : places,
      timezone_offset : offsets, use_sidereal : frames ]

Delhi == <<77, 28>>        \* <<longitude, latitude>>, whole degrees
NewYork == <<-74, 40>>

ChartDatetimes ==
    { Datetime(1995, 4, 20, 16, 30, 0, 0), Datetime(1996, 2, 29, 4, 0, 0, 0) }

\* SpecChart: one thread, every argument.
OneThreadInputs == ChartArgs(ChartDatetimes, {NewYork, Delhi}, {0, 330}, BOOLEAN)

ChartInputs(t) == IF t = 1 THEN OneThreadInputs ELSE {}

\* SpecConc: each thread computes for its own place.
ConcDatetimes == { Datetime(1995, 4, 20, 16, 30, 0, 0) }

ConcInputs(t) ==
    ChartArgs(ConcDatetimes,
              {IF t = 1 THEN Delhi ELSE NewYork}, {0}, {TRUE})

\* What swe.azalt may do: raise, or give an altitude in
\* -MaxAltitude..MaxAltitude degrees.
MaxAltitude == 1

AltOutcomes ==
    { [raised |-> TRUE, altitude |-> 0] }
    \cup { [raised |-> FALSE, altitude |-> a] : a \in (-MaxAltitude)..MaxAltitude }
\* swe.azalt answering with the Sun above the horizon.
DayAltitude == { [raised |-> FALSE, altitude |-> 1] }
\* What swe.calc_ut may do: answer (TRUE) or raise (FALSE).
CalcOutcomes == BOOLEAN
\* At most this many calc_ut calls of one loop raise.
MaxCalcFailures == 1

InitChart ==
    /\ swe_tls \in BOOLEAN
    /\ swe_topo = [t \in Threads |-> <<>>]
    /\ ch = [t \in Threads |-> IdleFrame]
    /\ HousesIdle /\ TimeIdle /\ JulianIdle /\ RequestIdle /\ AgeIdle /\ ServiceIdle /\ ContextIdle
    /\ SequenceIdle /\ AssetIdle /\ FallbackIdle

\* lines 171-175: the call, up to jd = self.datetime_to_julian(...).
CallChart(t, inputs) ==
    /\ ch[t].pc \in {"idle", "returned", "raised"}
    /\ \E a \in inputs :
          ch' = [ch EXCEPT ![t] =
                    [ IdleFrame EXCEPT
                        !.pc = "set_topo",
                        !.birth_datetime = a.birth_datetime,
                        !.longitude = a.place[1],
                        !.latitude = a.place[2],
                        !.timezone_offset = a.timezone_offset,
                        !.use_sidereal = a.use_sidereal,
                        !.jd = DatetimeToJulian(a.birth_datetime, a.timezone_offset) ]]
    /\ UNCHANGED <<swe_tls, swe_topo, housesVars, timeVars, julianVars, requestVars,
                 ageVars, serviceVars, contextVars,
                 sequenceVars, assetVars, fallbackVars>>

\* line 178: swe.set_topo(longitude, latitude, 0)
ChartSetTopo(t) ==
    /\ ch[t].pc = "set_topo"
    /\ swe_topo' = SetTopo(swe_topo, t, <<ch[t].longitude, ch[t].latitude>>)
    /\ ch' = [ch EXCEPT ![t].pc = "houses"]
    /\ UNCHANGED <<swe_tls, housesVars, timeVars, julianVars, requestVars,
                 ageVars, serviceVars, contextVars,
                 sequenceVars, assetVars, fallbackVars>>

\* lines 181-201: flags, ayanamsa, swe.houses, the sidereal shift of the
\* angles, the ascendant's sign index.
ChartHouses(t) ==
    /\ ch[t].pc = "houses"
    /\ LET f == ch[t]
           ayanamsa_value == IF f.use_sidereal THEN GetAyanamsa(f.jd) ELSE 0
           ascmc == SweHouses(f.jd, f.latitude, f.longitude)
           ascendant == IF f.use_sidereal
                        THEN (ascmc.ascendant - ayanamsa_value) % 360
                        ELSE ascmc.ascendant
           mc == IF f.use_sidereal
                 THEN (ascmc.mc - ayanamsa_value) % 360
                 ELSE ascmc.mc
       IN  ch' = [ch EXCEPT ![t] =
                    [ f EXCEPT !.pc = "sun",
                               !.ayanamsa_value = ayanamsa_value,
                               !.ascendant = ascendant,
                               !.mc = mc,
                               !.asc_sign_index = ascendant \div 30 ]]
    /\ UNCHANGED <<swe_tls, swe_topo, housesVars, timeVars, julianVars, requestVars,
                 ageVars, serviceVars, contextVars,
                 sequenceVars, assetVars, fallbackVars>>

\* lines 204-205: sun_pos = swe.calc_ut(jd, 0, calc_flags), outside any try:
\* when the library raises, calculate_chart raises.
ChartSun(t, outcomes) ==
    /\ ch[t].pc = "sun"
    /\ \E ok \in outcomes :
          ch' = [ch EXCEPT ![t] =
                    IF ok
                    THEN [ @ EXCEPT !.pc = "altitude", !.sun_topo = swe_topo[t] ]
                    ELSE [ @ EXCEPT !.pc = "raised" ]]
    /\ UNCHANGED <<swe_tls, swe_topo, housesVars, timeVars, julianVars, requestVars,
                 ageVars, serviceVars, contextVars,
                 sequenceVars, assetVars, fallbackVars>>

\* lines 209-210: sun_altitude = self._calculate_altitude(...);
\* is_day_chart = sun_altitude > 0
ChartAltitude(t, outcomes) ==
    /\ ch[t].pc = "altitude"
    /\ \E o \in outcomes :
          ch' = [ch EXCEPT ![t] =
                    [ @ EXCEPT !.pc = "planets",
                               !.alt_raised = o.raised,
                               !.sun_altitude = CalculateAltitude(o),
                               !.is_day_chart = IsDayChart(CalculateAltitude(o)) ]]
    /\ UNCHANGED <<swe_tls, swe_topo, housesVars, timeVars, julianVars, requestVars,
                 ageVars, serviceVars, contextVars,
                 sequenceVars, assetVars, fallbackVars>>

\* lines 214-231: one turn of the loop over PLANET_IDS; a planet whose
\* calc_ut raises is left out of the dict.
ChartPlanet(t, outcomes) ==
    /\ ch[t].pc = "planets"
    /\ ch[t].i <= Len(PLANET_NAMES)
    /\ \E ok \in outcomes :
          LET f == ch[t]
              planet_name == PLANET_NAMES[f.i]
              failed == IF ok THEN 0 ELSE 1
              planet_longitude ==
                  CalcUtLongitude(f.jd, PLANET_IDS[planet_name], swe_topo[t],
                                  f.use_sidereal)
              data == PlanetDataOf(planet_name, planet_longitude, swe_topo[t])
          IN  /\ f.failures + failed <= MaxCalcFailures
              /\ ch' = [ch EXCEPT ![t] =
                        [ f EXCEPT
                            !.i = f.i + 1,
                            !.failures = f.failures + failed,
                            !.planets =
                                IF ok
                                THEN [ n \in DOMAIN f.planets \cup {planet_name} |->
                                         IF n = planet_name THEN data ELSE f.planets[n] ]
                                ELSE f.planets ]]
    /\ UNCHANGED <<swe_tls, swe_topo, housesVars, timeVars, julianVars, requestVars,
                 ageVars, serviceVars, contextVars,
                 sequenceVars, assetVars, fallbackVars>>

\* lines 234-246: _assign_whole_sign_houses, then the ChartData is returned.
ChartReturn(t) ==
    /\ ch[t].pc = "planets"
    /\ ch[t].i > Len(PLANET_NAMES)
    /\ ch' = [ch EXCEPT ![t] =
                [ @ EXCEPT
                    !.pc = "returned",
                    !.planets = AssignWholeSignHouses(@, ch[t].asc_sign_index) ]]
    /\ UNCHANGED <<swe_tls, swe_topo, housesVars, timeVars, julianVars, requestVars,
                 ageVars, serviceVars, contextVars,
                 sequenceVars, assetVars, fallbackVars>>

NextChart ==
    \E t \in Threads :
        \/ CallChart(t, ChartInputs(t))
        \/ ChartSetTopo(t)
        \/ ChartHouses(t)
        \/ ChartSun(t, CalcOutcomes)
        \/ ChartAltitude(t, AltOutcomes)
        \/ ChartPlanet(t, CalcOutcomes)
        \/ ChartReturn(t)

SpecChart == InitChart /\ [][NextChart]_vars

NextConc ==
    \E t \in Threads :
        \/ CallChart(t, ConcInputs(t))
        \/ ChartSetTopo(t)
        \/ ChartHouses(t)
        \/ ChartSun(t, {TRUE})
        \/ ChartAltitude(t, DayAltitude)
        \/ ChartPlanet(t, {TRUE})
        \/ ChartReturn(t)

SpecConc == InitChart /\ [][NextConc]_vars

\* The observer of thread t's own call.
OwnObserver(t) == <<ch[t].longitude, ch[t].latitude>>

\* C2 (as claimed): under every interleaving of two calculate_chart calls,
\* each position query of a call (the Sun's at line 204, every planet's in
\* the loop) is evaluated with the observer of that call.
C2_OwnObserverUsed ==
    \A t \in Threads :
        /\ ch[t].pc \in {"altitude", "planets", "returned"} =>
              ch[t].sun_topo = OwnObserver(t)
        /\ \A n \in DOMAIN ch[t].planets :
              ch[t].planets[n].topo = OwnObserver(t)

\* C4 (as claimed): when swe.azalt raised, calculate_chart does not raise
\* and the chart it returns is a day chart.
C4_AltitudeFailureGivesDay ==
    \A t \in Threads :
        ch[t].alt_raised =>
            /\ ch[t].pc # "raised"
            /\ ch[t].pc = "returned" => ch[t].is_day_chart = TRUE

\* C5: in every chart returned, is_day_chart is TRUE exactly when
\* sun_altitude > 0.
C5_DayIffAltitudePositive ==
    \A t \in Threads :
        ch[t].pc = "returned" =>
            (ch[t].is_day_chart = TRUE <=> ch[t].sun_altitude > 0)

\* C5 witness: swe.azalt answered exactly 0 and the chart returned is a
\* night chart.
C5_Witness ==
    \E t \in Threads :
        /\ ch[t].pc = "returned"
        /\ ~ch[t].alt_raised
        /\ ch[t].sun_altitude = 0
        /\ ch[t].is_day_chart = FALSE
        /\ DOMAIN ch[t].planets # {}


(***************************************************************************)
(* _parse_date and the fallback estimates (horoscope_service.py).          *)
(*                                                                         *)
(* A dob text is [shape, n1, n2, n3], the numbers in the order written:    *)
(*   "long"   "<Month n1> <n2>, <n3>"   e.g. "April 20, 1995"              *)
(*   "abbr"   "<Mon n1> <n2>, <n3>"     e.g. "Apr 20, 1995"                *)
(*   "iso"    "<n1>-<n2>-<n3>"          n1 of four digits                  *)
(*   "slash"  "<n1>/<n2>/<n3>"          n3 of four digits                  *)
(*   "dash"   "<n1>-<n2>-<n3>"          n3 of four digits                  *)
(*   "mixed"  "<n1>/<n2>-<n3>"          n3 of four digits                  *)
(*   "words"  text without such a pattern, e.g. "yesterday"                *)
(*   "empty"  the empty string;  "blank"  whitespace only                  *)
(* n1 and n2 have one or two digits where the shape puts a day or month.   *)
(***************************************************************************)
DobText(shape, n1, n2, n3) == [shape |-> shape, n1 |-> n1, n2 |-> n2, n3 |-> n3]

NoDate == [ok |-> FALSE, year |-> 0, month |-> 0, day |-> 0]

\* datetime(year, month, day), or the ValueError it raises.
MakeDate(year, month, day) ==
    IF ValidDate(year, month, day)
    THEN [ok |-> TRUE, year |-> year, month |-> month, day |-> day]
    ELSE NoDate

\* The strptime formats of _parse_date, in its order.
DateFormats == << "%B %d, %Y", "%b %d, %Y", "%Y-%m-%d", "%d/%m/%Y", "%m/%d/%Y", "%d-%m-%Y" >>

\* datetime.strptime(dob.strip(), fmt), or the ValueError it raises: the
\* text must have the format's shape and name a calendar date.
Strptime(dob, fmt) ==
    CASE fmt = "%B %d, %Y" /\ dob.shape = "long"  -> MakeDate(dob.n3, dob.n1, dob.n2)
      [] fmt = "%b %d, %Y" /\ dob.shape = "abbr"  -> MakeDate(dob.n3, dob.n1, dob.n2)
      [] fmt = "%Y-%m-%d"  /\ dob.shape = "iso"   -> MakeDate(dob.n1, dob.n2, dob.n3)
      [] fmt = "%d/%m/%Y"  /\ dob.shape = "slash" -> MakeDate(dob.n3, dob.n2, dob.n1)
      [] fmt = "%m/%d/%Y"  /\ dob.shape = "slash" -> MakeDate(dob.n3, dob.n1, dob.n2)
      [] fmt = "%d-%m-%Y"  /\ dob.shape = "dash"  -> MakeDate(dob.n3, dob.n2, dob.n1)
      [] OTHER -> NoDate

\* re.search(r'(\d{1,2})[/\-](\d{1,2})[/\-](\d{4})', dob): (day, month, year).
MatchDateRegex(dob) ==
    IF dob.shape \in {"slash", "dash", "mixed"}
    THEN [ok |-> TRUE, day |-> dob.n1, month |-> dob.n2, year |-> dob.n3]
    ELSE [ok |-> FALSE]

RECURSIVE TryFormats(_, _, _)
TryFormats(dob, formats, k) ==
    IF k > Len(formats) THEN NoDate
    ELSE IF Strptime(dob, formats[k]).ok THEN Strptime(dob, formats[k])
    ELSE TryFormats(dob, formats, k + 1)

\* _parse_date(dob): the date, or ok = FALSE for the ValueError raised
\* (by the last line, or by datetime() on the regex groups).
ParseDate(dob) ==
    LET by_format == TryFormats(dob, DateFormats, 1)
        match == MatchDateRegex(dob)
    IN  IF by_format.ok THEN by_format
        ELSE IF match.ok THEN MakeDate(match.year, match.month, match.day)
        ELSE NoDate

\* A mutation of CalculateAge: the difference of the years alone.
CalculateAgeByYears(birth_date, current_date) ==
    IF current_date[1] > birth_date[1] THEN current_date[1] - birth_date[1] ELSE 0

\* _calculate_age(birth_date, current_date); dates are <<year, month, day>>.
CalculateAge(birth_date, current_date) ==
    LET age == current_date[1] - birth_date[1]
        before == \/ current_date[2] < birth_date[2]
                  \/ current_date[2] = birth_date[2] /\ current_date[3] < birth_date[3]
        exact == IF before THEN age - 1 ELSE age
    IN  IF exact > 0 THEN exact ELSE 0

\* _get_fallback_zodiac, lines 279-290: the twelve date-range conditions in
\* the order of the code, each with the sign it returns.
FallbackZodiacRules(day, month) ==
    << [holds |-> (month = 3 /\ day >= 21) \/ (month = 4 /\ day <= 19), sign |-> "Aries"],
       [holds |-> (month = 4 /\ day >= 20) \/ (month = 5 /\ day <= 20), sign |-> "Taurus"],
       [holds |-> (month = 5 /\ day >= 21) \/ (month = 6 /\ day <= 21), sign |-> "Gemini"],
       [holds |-> (month = 6 /\ day >= 22) \/ (month = 7 /\ day <= 22), sign |-> "Cancer"],
       [holds |-> (month = 7 /\ day >= 23) \/ (month = 8 /\ day <= 22), sign |-> "Leo"],
       [holds |-> (month = 8 /\ day >= 23) \/ (month = 9 /\ day <= 22), sign |-> "Virgo"],
       [holds |-> (month = 9 /\ day >= 23) \/ (month = 10 /\ day <= 23), sign |-> "Libra"],
       [holds |-> (month = 10 /\ day >= 24) \/ (month = 11 /\ day <= 22), sign |-> "Scorpio"],
       [holds |-> (month = 11 /\ day >= 23) \/ (month = 12 /\ day <= 21), sign |-> "Sagittarius"],
       [holds |-> (month = 12 /\ day >= 22) \/ (month = 1 /\ day <= 19), sign |-> "Capricorn"],
       [holds |-> (month = 1 /\ day >= 20) \/ (month = 2 /\ day <= 18), sign |-> "Aquarius"],
       [holds |-> (month = 2 /\ day >= 19) \/ (month = 3 /\ day <= 20), sign |-> "Pisces"] >>

\* The conditions that hold for a date, by their place in the code.
FallbackZodiacHits(day, month) ==
    { i \in 1..12 : FallbackZodiacRules(day, month)[i].holds }

\* A mutation of GetFallbackZodiac: Gemini ends on 20 June, and 21 June
\* meets no condition.
GetFallbackZodiacShortGemini(day, month) ==
    LET hits == IF month = 6 /\ day = 21 THEN {} ELSE FallbackZodiacHits(day, month)
    IN  IF hits = {} THEN "Aries"
        ELSE FallbackZodiacRules(day, month)[CHOOSE i \in hits : \A j \in hits : i <= j].sign

\* _get_fallback_zodiac(day, month): the sign of the first condition that
\* holds, and "Aries" (line 292) when none does.
GetFallbackZodiac(day, month) ==
    LET hits == FallbackZodiacHits(day, month)
    IN  IF hits = {} THEN "Aries"
        ELSE FallbackZodiacRules(day, month)[CHOOSE i \in hits : \A j \in hits : i <= j].sign

\* _get_fallback_ruler(sign)
GetFallbackRuler(sign) ==
    CASE sign \in {"Aries", "Scorpio"} -> "Mars"
      [] sign \in {"Taurus", "Libra"} -> "Venus"
      [] sign \in {"Gemini", "Virgo"} -> "Mercury"
      [] sign = "Cancer" -> "Moon"
      [] sign = "Leo" -> "Sun"
      [] sign \in {"Sagittarius", "Pisces"} -> "Jupiter"
      [] sign \in {"Capricorn", "Aquarius"} -> "Saturn"
      [] OTHER -> "Sun"

\* A summary, in the shape of CDOSummary.model_dump(); ascendant is the
\* pair <<sign, label>> for the text "<sign> <label>".
Summary(sect, ascendant, time_lord, profection_house) ==
    [ sect |-> sect, ascendant |-> ascendant, is_cusp |-> FALSE,
      time_lord |-> time_lord, profection_house |-> profection_house,
      profection_theme |-> "General Life Themes",
      major_aspect |-> "Transits active",
      time_lord_activation |-> NoValue,
      dignity_warning |-> "", malefic_severity |-> "constructive" ]

\* A mutation of ProfectionHouse: the remainder itself, 0..11.
ProfectionHouseUnshifted(age) == age % 12

\* line 513: profection_house = (age % 12) + 1
ProfectionHouse(age) == (age % 12) + 1

\* A mutation of BuildFallbackSummary: when the date does not parse the
\* ruler is the Sun.
BuildFallbackSummarySunDefault(dob, birth_time, age) ==
    LET birth_date == ParseDate(dob)
        zodiac == IF birth_date.ok
                  THEN GetFallbackZodiac(birth_date.day, birth_date.month)
                  ELSE "Aries"
        ruler  == IF birth_date.ok THEN GetFallbackRuler(zodiac) ELSE "Sun"
    IN  Summary("Diurnal", <<zodiac, "(estimated)">>, ruler, ProfectionHouse(age))

\* _build_fallback_summary(dob, birth_time, age)
BuildFallbackSummary(dob, birth_time, age) ==
    LET birth_date == ParseDate(dob)
        zodiac == IF birth_date.ok
                  THEN GetFallbackZodiac(birth_date.day, birth_date.month)
                  ELSE "Aries"
        ruler  == IF birth_date.ok THEN GetFallbackRuler(zodiac) ELSE "Mars"
    IN  Summary("Diurnal", <<zodiac, "(estimated)">>, ruler, ProfectionHouse(age))


(***************************************************************************)
(* The request pipeline: HoroscopeRequest validation, the route, and       *)
(* generate_horoscope (request_models.py, horoscope_routes.py,             *)
(* horoscope_service.py).                                                  *)
(*                                                                         *)
(* generate_horoscope runs to its one await (the language model), and from *)
(* the model's answer to its return: two actions.  The ephemeris, the CDO  *)
(* assembler (astro_calculator) and the language model are environment:    *)
(* each answers or raises.                                                 *)
(***************************************************************************)
MaxCacheEntries == 1   \* the cache holds at most this many cards

\* The optional timezone_offset of a request: absent, or minutes.
NoOffset == [given |-> FALSE, minutes |-> 0]
Offset(minutes) == [given |-> TRUE, minutes |-> minutes]

RequestDobs ==
    { DobText("iso", 1995, 4, 20), DobText("slash", 4, 20, 1995),
      DobText("iso", 1995, 2, 29), DobText("words", 0, 0, 0),
      DobText("empty", 0, 0, 0) }

RequestTimes ==
    { TimeText("hm", 16, 30, ""), TimeText("hm", 25, 0, "") }

\* <<longitude, latitude>>: New Delhi, the Gulf of Guinea, the equator.
RequestPlaces == { Delhi, <<0, 0>>, <<77, 0>> }

\* The requests: every combination without the cache, and with the cache
\* the requests of one birth place text for a date that parses and one that
\* does not.
RequestArgs ==
    [ dob : RequestDobs, birth_time : RequestTimes, birth_place : {"New Delhi", ""},
      place : RequestPlaces, timezone_offset : {NoOffset, Offset(330)},
      use_cache : {FALSE} ]
    \cup
    [ dob : { DobText("iso", 1995, 4, 20), DobText("words", 0, 0, 0) },
      birth_time : { TimeText("hm", 16, 30, "") }, birth_place : {"New Delhi"},
      place : RequestPlaces, timezone_offset : {NoOffset},
      use_cache : {TRUE} ]

\* date.today() at the time of a request: the day before a 20 April
\* birthday, and the birthday.
Todays == { <<2026, 4, 19>>, <<2026, 4, 20>> }

\* What the ephemeris and the CDO assembler do for a chart: raise, or give
\* the chart's sect and ascendant sign.
CdoOutcomes ==
    { [raised |-> TRUE, sect |-> "", ascendant_sign |-> ""],
      [raised |-> FALSE, sect |-> "Nocturnal", ascendant_sign |-> "Leo"] }

\* What the language model does: raise, answer text without JSON, or answer
\* card data.  front is the "front" dictionary of the data, with the keys
\* the model chose to give: a time lord and a profection house of its
\* choice, and a luck score inside or outside 0..100.
LlmOutcomes ==
    { [kind |-> "raise", front |-> [tagline |-> ""]],
      [kind |-> "nojson", front |-> [tagline |-> ""]],
      [kind |-> "data",
       front |-> [time_lord |-> "Venus", luck_score |-> 0, profection_house |-> 12]],
      [kind |-> "data", front |-> [luck_score |-> 100]],
      [kind |-> "data",
       front |-> [time_lord |-> "Venus", luck_score |-> 101, profection_house |-> 5]],
      [kind |-> "data",
       front |-> [time_lord |-> "Venus", luck_score |-> -1, profection_house |-> 5]],
      [kind |-> "data",
       front |-> [time_lord |-> "Venus", luck_score |-> 50, profection_house |-> 13]],
      [kind |-> "data",
       front |-> [time_lord |-> "Venus", luck_score |-> 50, profection_house |-> 0]],
      [kind |-> "data", front |-> [time_lord |-> "Venus", profection_house |-> 5]] }

\* HoroscopeRequest.not_empty_dob
NotEmptyDob(dob) == dob.shape \notin {"empty", "blank"}

\* HoroscopeRequest.validate_dob_format: the value is returned whether or
\* not one of the validator's five formats parses it.
ValidatorFormats == SubSeq(DateFormats, 1, 5)

ValidateDobFormat(dob) ==
    IF TryFormats(dob, ValidatorFormats, 1).ok THEN [ok |-> TRUE, value |-> dob]
    ELSE [ok |-> TRUE, value |-> dob]

\* HoroscopeRequest(...): the field constraints and validators.
ValidRequest(a) ==
    /\ NotEmptyDob(a.dob)
    /\ ValidateDobFormat(a.dob).ok
    /\ a.place[2] >= -90 /\ a.place[2] <= 90
    /\ a.place[1] >= -180 /\ a.place[1] <= 180

\* The route's "request.timezone_offset or 0.0".
RouteOffset(tz) == IF tz.given /\ tz.minutes # 0 THEN tz.minutes ELSE 0

\* cache_service's key for get(dob, birth_time, birth_place) and set(...).
CacheKey(a) == <<a.dob, a.birth_time, a.birth_place>>

\* astro_calculator.build_cdo / build_cdo_summary: the year's house is
\* (age mod 12) + 1 and the time lord the domicile ruler of the sign in that
\* house, counted by whole signs from the ascendant.
BuildCdoSummary(chart, birth_date, current_date) ==
    LET age == CalculateAge(birth_date, current_date)
        house == (age % 12) + 1
        sign == SignAt((SignIndex(chart.ascendant_sign) + house - 1) % 12)
    IN  Summary(chart.sect, <<chart.ascendant_sign, "at 16">>,
                GetFallbackRuler(sign), house)

NoSummary == [sect |-> NoValue]
\* _build_cdo_context left by an exception: nothing built.
NoContext == [ok |-> FALSE, summary |-> NoSummary]

DefaultDate == MakeDate(2000, 1, 1)

\* A mutation of BuildCdoContext: a dob that does not parse is taken for
\* 1 January 2000 instead of raising.
BuildCdoContextDefaultDate(dob, birth_time, current_date, outcome) ==
    LET parsed == ParseDate(dob)
        birth_date == IF parsed.ok THEN parsed ELSE DefaultDate
        hm == ParseTime(birth_time)
    IN  IF ~ReplaceAccepts(hm[1], hm[2]) \/ outcome.raised
        THEN NoContext
        ELSE [ok |-> TRUE,
              summary |-> BuildCdoSummary(outcome,
                              <<birth_date.year, birth_date.month, birth_date.day>>,
                              current_date)]

\* _build_cdo_context(dob, birth_time, latitude, longitude, timezone_offset)
\* with cdo_enabled: ok = FALSE stands for the exception raised by
\* _parse_date, by replace(), or by the ephemeris and the assembler.
BuildCdoContext(dob, birth_time, current_date, outcome) ==
    LET birth_date == ParseDate(dob)
        hm == ParseTime(birth_time)
    IN  IF ~birth_date.ok \/ ~ReplaceAccepts(hm[1], hm[2]) \/ outcome.raised
        THEN NoContext
        ELSE [ok |-> TRUE,
              summary |-> BuildCdoSummary(outcome,
                              <<birth_date.year, birth_date.month, birth_date.day>>,
                              current_date)]

\* A mutation of PrepareSummary: generation_mode keeps its initial "cdo"
\* when _build_cdo_context raises.
PrepareSummaryKeepsMode(a, today, outcome) ==
    LET birth_date == ParseDate(a.dob)
        age == IF birth_date.ok
               THEN CalculateAge(<<birth_date.year, birth_date.month, birth_date.day>>, today)
               ELSE 30
        attempt == cdo_enabled /\ a.place[2] # 0 /\ a.place[1] # 0
        built == BuildCdoContext(a.dob, a.birth_time, today, outcome)
    IN  [ age |-> age,
          cdo_attempted |-> attempt,
          cdo_raised |-> attempt /\ ~built.ok,
          generation_mode |-> IF attempt THEN "cdo" ELSE "fallback",
          cdo_summary |-> IF attempt /\ built.ok
                          THEN built.summary
                          ELSE BuildFallbackSummary(a.dob, a.birth_time, age) ]

\* generate_horoscope lines 340-372: the age, then the CDO or the fallback
\* summary.  cdo_attempted notes that _build_cdo_context was called,
\* cdo_raised that it raised.
PrepareSummary(a, today, outcome) ==
    LET birth_date == ParseDate(a.dob)
        age == IF birth_date.ok
               THEN CalculateAge(<<birth_date.year, birth_date.month, birth_date.day>>, today)
               ELSE 30
        attempt == cdo_enabled /\ a.place[2] # 0 /\ a.place[1] # 0
        built == BuildCdoContext(a.dob, a.birth_time, today, outcome)
    IN  [ age |-> age,
          cdo_attempted |-> attempt,
          cdo_raised |-> attempt /\ ~built.ok,
          generation_mode |-> IF attempt /\ built.ok THEN "cdo" ELSE "fallback",
          cdo_summary |-> IF attempt /\ built.ok
                          THEN built.summary
                          ELSE BuildFallbackSummary(a.dob, a.birth_time, age) ]

\* A mutation of ValidHoroscopeFront: the ge/le constraints are not applied.
ValidHoroscopeFrontUnbounded(front) ==
    "luck_score" \in DOMAIN front

\* HoroscopeFront(**front) validates: luck_score is required and within
\* ge=0, le=100; profection_house, when given, is within ge=1, le=12.
ValidHoroscopeFront(front) ==
    /\ "luck_score" \in DOMAIN front
    /\ front.luck_score >= 0 /\ front.luck_score <= 100
    /\ "profection_house" \in DOMAIN front =>
          (front.profection_house >= 1 /\ front.profection_house <= 12)

\* The validated HoroscopeFront: time_lord defaults to "Sun" and
\* profection_house to 1.
HoroscopeFront(front) ==
    [ luck_score |-> front.luck_score,
      time_lord |-> IF "time_lord" \in DOMAIN front THEN front.time_lord ELSE "Sun",
      profection_house |-> IF "profection_house" \in DOMAIN front
                           THEN front.profection_house ELSE 1 ]

\* The card built from a valid answer of the language model (lines 419-488).
GeneratedCard(llm, cdo_summary) ==
    [ source |-> "generated", front |-> HoroscopeFront(llm.front),
      sect |-> "Diurnal", cdo_summary |-> cdo_summary ]

\* _get_fallback_card(time_lord, sect)
GetFallbackCard(time_lord, sect) ==
    [ source |-> "static",
      front |-> [luck_score |-> 50, time_lord |-> time_lord, profection_house |-> 1],
      sect |-> sect, cdo_summary |-> NoSummary ]

\* A mutation of CacheSet: the card is stored whatever use_cache says.
CacheSetAlways(c, use_cache, key, entry) ==
    [ k \in DOMAIN c \cup {key} |-> IF k = key THEN entry ELSE c[k] ]

\* lines 491-492: if use_cache: cache_service.set(dob, birth_time,
\* birth_place, json.dumps(card_dict))
CacheSet(c, use_cache, key, entry) ==
    IF use_cache
    THEN [ k \in DOMAIN c \cup {key} |-> IF k = key THEN entry ELSE c[k] ]
    ELSE c

InitRequest ==
    /\ cdo_enabled \in BOOLEAN
    /\ cache = <<>>
    /\ req = NoRequest
    /\ resp = NoResponse
    /\ HousesIdle /\ TimeIdle /\ JulianIdle /\ ChartIdle /\ AgeIdle /\ ServiceIdle /\ ContextIdle
    /\ SequenceIdle /\ AssetIdle /\ FallbackIdle

\* A request that fails HoroscopeRequest validation never reaches the route.
RejectRequest ==
    /\ ~req.active
    /\ resp.status = "none"
    /\ \E a \in RequestArgs :
          /\ ~ValidRequest(a)
          /\ resp' = [status |-> "rejected", args |-> a]
    /\ UNCHANGED <<cdo_enabled, cache, req, housesVars, timeVars, julianVars, chartVars,
                 ageVars, serviceVars, contextVars,
                 sequenceVars, assetVars, fallbackVars>>

\* generate_horoscope lines 333-338: a cache hit returns at once.
ServeCached ==
    /\ ~req.active
    /\ resp.status = "none"
    /\ \E a \in RequestArgs :
          /\ ValidRequest(a)
          /\ a.use_cache
          /\ CacheKey(a) \in DOMAIN cache
          /\ resp' = [ status |-> "ok", args |-> a,
                       card |-> cache[CacheKey(a)].card,
                       stored_place |-> cache[CacheKey(a)].place,
                       cached |-> TRUE, generation_mode |-> "cdo" ]
    /\ UNCHANGED <<cdo_enabled, cache, req, housesVars, timeVars, julianVars, chartVars,
                 ageVars, serviceVars, contextVars,
                 sequenceVars, assetVars, fallbackVars>>

\* The route's call (horoscope_routes.py, lines 40-51) and generate_horoscope
\* lines 333-417: no cache hit; up to the await of the language model.
\* timezone_offset is the argument the route passes on, which
\* _build_cdo_context hands to calculate_chart for the birth Julian Day.
StartGenerate ==
    /\ ~req.active
    /\ resp.status = "none"
    /\ \E a \in RequestArgs :
          /\ ValidRequest(a)
          /\ ~(a.use_cache /\ CacheKey(a) \in DOMAIN cache)
          /\ a.use_cache => Cardinality(DOMAIN cache) < MaxCacheEntries
          /\ \E today \in Todays, outcome \in CdoOutcomes :
                LET p == PrepareSummary(a, today, outcome)
                IN  req' = [ active |-> TRUE, args |-> a, age |-> p.age,
                             timezone_offset |-> RouteOffset(a.timezone_offset),
                             cdo_attempted |-> p.cdo_attempted,
                             cdo_raised |-> p.cdo_raised,
                             generation_mode |-> p.generation_mode,
                             cdo_summary |-> p.cdo_summary ]
    /\ resp' = NoResponse
    /\ UNCHANGED <<cdo_enabled, cache, housesVars, timeVars, julianVars, chartVars,
                 ageVars, serviceVars, contextVars,
                 sequenceVars, assetVars, fallbackVars>>

\* generate_horoscope lines 417-501: the language model answered or raised;
\* a valid card is cached and returned, anything else gives the static card.
\* raw notes the answer the card came from, summary the cdo_summary of the
\* call.
FinishGenerate ==
    /\ req.active
    /\ \E llm \in LlmOutcomes :
          IF llm.kind = "data" /\ ValidHoroscopeFront(llm.front)
          THEN LET card == GeneratedCard(llm, req.cdo_summary)
                   key == CacheKey(req.args)
                   entry == [card |-> card, place |-> req.args.place]
               IN  /\ cache' = CacheSet(cache, req.args.use_cache, key, entry)
                   /\ resp' = [ status |-> "ok", args |-> req.args, card |-> card,
                                cached |-> FALSE, cdo_raised |-> req.cdo_raised,
                                generation_mode |-> req.generation_mode,
                                raw |-> llm, summary |-> req.cdo_summary ]
          ELSE /\ cache' = cache
               /\ resp' = [ status |-> "ok", args |-> req.args,
                            card |-> GetFallbackCard(req.cdo_summary.time_lord,
                                                     req.cdo_summary.sect),
                            cached |-> FALSE, cdo_raised |-> req.cdo_raised,
                            generation_mode |-> "fallback", raw |-> llm,
                            summary |-> req.cdo_summary ]
    /\ req' = NoRequest
    /\ UNCHANGED <<cdo_enabled, housesVars, timeVars, julianVars, chartVars,
                 ageVars, serviceVars, contextVars,
                 sequenceVars, assetVars, fallbackVars>>

\* The route hands the response to the client (horoscope_routes.py), or
\* the client gets the validation error.
Respond ==
    /\ resp.status # "none"
    /\ resp' = NoResponse
    /\ UNCHANGED <<cdo_enabled, cache, req, housesVars, timeVars, julianVars, chartVars,
                 ageVars, serviceVars, contextVars,
                 sequenceVars, assetVars, fallbackVars>>

\* The cache drops an entry (expiry).
CacheExpire ==
    /\ \E k \in DOMAIN cache :
          cache' = [ j \in DOMAIN cache \ {k} |-> cache[j] ]
    /\ UNCHANGED <<cdo_enabled, req, resp, housesVars, timeVars, julianVars, chartVars,
                 ageVars, serviceVars, contextVars,
                 sequenceVars, assetVars, fallbackVars>>

Next ==
    \/ RejectRequest
    \/ ServeCached
    \/ StartGenerate
    \/ FinishGenerate
    \/ Respond
    \/ CacheExpire

Spec == InitRequest /\ [][Next]_vars

\* The dob of a request cannot be resolved to a calendar date.
Unparseable(dob) == ~ParseDate(dob).ok

C18_CdoFailureFallsBack ==
    /\ (req.active /\ req.cdo_raised) =>
          /\ req.generation_mode = "fallback"
          /\ req.cdo_summary =
                BuildFallbackSummary(req.args.dob, req.args.birth_time, req.age)
    /\ (resp.status = "ok" /\ ~resp.cached /\ resp.cdo_raised) =>
          resp.generation_mode = "fallback"
    /\ resp.status \in {"none", "ok", "rejected"}
    /\ resp.status = "rejected" => ~ValidRequest(resp.args)

\* C18 witness: the birth date and time were well formed and the chart
\* computation raised; the card was generated in mode "fallback".
C18_Witness ==
    /\ resp.status = "ok"
    /\ ~resp.cached
    /\ resp.cdo_raised
    /\ ParseDate(resp.args.dob).ok
    /\ resp.args.birth_time = TimeText("hm", 16, 30, "")
    /\ resp.card.source = "generated"
    /\ resp.card.cdo_summary.ascendant[2] = "(estimated)"
    /\ resp.generation_mode = "fallback"

\* The card was generated from a full CDO (not from the estimated summary,
\* and not the static card).
CardFromCdo(card) ==
    /\ card.source = "generated"
    /\ card.cdo_summary.ascendant[2] # "(estimated)"

\* C19 (as claimed): a card is reported in mode "cdo" only if a full CDO was
\* computed for it, also when it is served from the cache.
C19_ModeTellsCdo ==
    resp.status = "ok" =>
        /\ resp.generation_mode \in {"cdo", "fallback"}
        /\ resp.generation_mode = "cdo" => CardFromCdo(resp.card)

\* C20 (as claimed): a request is served a cached card only if its latitude
\* and longitude (with its birth date and time, which are in the key) are
\* those of the request that stored the card.
C20_CacheKeyedByCoordinates ==
    (resp.status = "ok" /\ resp.cached) => resp.stored_place = resp.args.place

\* The bounds the HoroscopeFront model puts on a card's front.
FrontInBounds(card) ==
    /\ card.front.luck_score \in 0..100
    /\ card.front.profection_house \in 1..12

\* C21: every card returned (generated, served from the cache, or static)
\* and every card in the cache has front.luck_score in 0..100 and
\* front.profection_house in 1..12; an answer of the language model outside
\* these bounds is answered with the static card.
C21_CardBounds ==
    /\ resp.status = "ok" => FrontInBounds(resp.card)
    /\ \A k \in DOMAIN cache : FrontInBounds(cache[k].card)
    /\ (resp.status = "ok" /\ ~resp.cached /\ resp.raw.kind = "data"
          /\ ~ValidHoroscopeFront(resp.raw.front)) =>
            resp.card.source = "static"

\* C21 witness: the language model answered a luck score of 101 for a
\* caching request, and the static card was returned.
C21_Witness ==
    /\ resp.status = "ok"
    /\ ~resp.cached
    /\ resp.args.use_cache
    /\ resp.raw.kind = "data"
    /\ "luck_score" \in DOMAIN resp.raw.front
    /\ resp.raw.front.luck_score = 101
    /\ resp.card.source = "static"
    /\ resp.card.front.luck_score = 50

\* The offset (minutes east of UTC) is within an hour and a half of the
\* local mean time of the place, 4 minutes per degree of longitude.
OffsetPlausibleFor(offset, place) ==
    (offset - 4 * place[1]) \in -90..90

\* C22 (as claimed): when the request omits timezone_offset, the offset
\* used for the birth Julian Day is an estimate for the birth location.
C22_OmittedOffsetEstimated ==
    (req.active /\ req.cdo_attempted /\ ~req.args.timezone_offset.given) =>
        OffsetPlausibleFor(req.timezone_offset, req.args.place)

\* C24 (as claimed): with the CDO enabled, a request with a parseable birth
\* date and coordinates anywhere in the accepted ranges (the equator and the
\* prime meridian included) has the ephemeris CDO computation attempted.
C24_CdoAttemptedEverywhere ==
    (req.active /\ cdo_enabled /\ ~Unparseable(req.args.dob)
      /\ req.args.place[2] \in -90..90 /\ req.args.place[1] \in -180..180) =>
        req.cdo_attempted

\* The cache entries of the next state that this step wrote.
WrittenKeys ==
    { k \in DOMAIN cache' : k \notin DOMAIN cache \/ cache'[k] # cache[k] }

\* A step writes to the cache only for a call with use_cache, under the
\* call's key, and what it writes is the validated generated card that the
\* step returns.
CacheWrittenOnlyValidated ==
    \A k \in WrittenKeys :
        /\ req.active
        /\ req.args.use_cache
        /\ k = CacheKey(req.args)
        /\ resp'.status = "ok"
        /\ resp'.raw.kind = "data"
        /\ ValidHoroscopeFront(resp'.raw.front)
        /\ resp'.card.source = "generated"
        /\ cache'[k].card = resp'.card

\* C25: the cache is written only with use_cache and only with the card
\* that passed the AstroCard validation; the static card is never stored
\* and never served from the cache; without use_cache the cache is neither
\* read nor written.
C25_CacheOnlyValidated ==
    /\ [][CacheWrittenOnlyValidated]_vars
    /\ [](\A k \in DOMAIN cache : cache[k].card.source = "generated")
    /\ []((resp.status = "ok" /\ resp.cached) =>
            (resp.args.use_cache /\ resp.card.source = "generated"))
    /\ []((resp.status = "ok" /\ ~resp.args.use_cache) => ~resp.cached)

\* C25 witness: a call with use_cache ended with the static card, and the
\* cache has no entry under its key.
C25_Witness ==
    /\ resp.status = "ok"
    /\ ~resp.cached
    /\ resp.args.use_cache
    /\ resp.raw.kind = "nojson"
    /\ resp.card.source = "static"
    /\ CacheKey(resp.args) \notin DOMAIN cache

\* C26 (as claimed): the time lord and the profection house on the front of
\* every card generate_horoscope produces (from generated output, or the
\* static card) are those of the summary computed for the request.
C26_FrontShowsSummary ==
    (resp.status = "ok" /\ ~resp.cached) =>
        /\ resp.card.front.time_lord = resp.summary.time_lord
        /\ resp.card.front.profection_house = resp.summary.profection_house

(***************************************************************************)
(* _build_cdo_context (horoscope_service.py, lines 200-250): the natal     *)
(* chart by calculate_chart (the chart actions above, thread 1), then      *)
(* datetime.now(), get_current_transits and the CDO assembler.             *)
(*                                                                         *)
(* datetime.now() gives the civil time of the server's timezone, without   *)
(* an offset.  The environment chooses the instant (as UTC) and the        *)
(* server's timezone.                                                      *)
(***************************************************************************)
\* The offsets of the timezones a server may run in, minutes east of UTC.
ServerZones == {0, 330, -300}

\* The instants at which a CDO is built, as UTC date-times.
CdoInstants ==
    { Datetime(2026, 4, 19, 20, 0, 0, 0), Datetime(2026, 5, 9, 20, 0, 30, 0) }

\* datetime.now() at the UTC instant utc on a server whose timezone is
\* server_tz minutes east: the naive local civil date-time.
DatetimeNow(utc, server_tz) ==
    LET local == UtcMoment(utc, -server_tz)
    IN  Datetime(local[1][1], local[1][2], local[1][3],
                 local[2] \div 3600, (local[2] % 3600) \div 60, local[2] % 60,
                 local[3])

\* The arguments _build_cdo_context hands to calculate_chart (lines 223-229):
\* use_sidereal is True.
CdoChartInputs == ChartArgs(ChartDatetimes, {Delhi}, {0, 330}, {TRUE})

\* get_current_transits' defaults for the arguments _build_cdo_context does
\* not pass (lines 294-295; the call at lines 233-237 passes neither).
TransitDefaults == [timezone_offset |-> 0, use_sidereal |-> FALSE]

\* A mutation of TransitSkips: no body is skipped.
TransitSkipsNone(planet_name) == FALSE

\* line 328: the lunar node is skipped for transits.
TransitSkips(planet_name) == planet_name = "TrueNode"

\* The dob and birth_time texts handed to _build_cdo_context: two that give
\* the birth date-times of ChartDatetimes, a date of words, and an hour
\* that replace() refuses.
CdoBirthTexts ==
    { [dob |-> DobText("iso", 1995, 4, 20), birth_time |-> TimeText("hm", 16, 30, "")],
      [dob |-> DobText("iso", 1996, 2, 29), birth_time |-> TimeText("hm", 4, 0, "AM")],
      [dob |-> DobText("words", 0, 0, 0), birth_time |-> TimeText("hm", 16, 30, "")],
      [dob |-> DobText("iso", 1995, 4, 20), birth_time |-> TimeText("hm", 25, 0, "")] }

\* What astro_calculator.build_cdo and build_cdo_summary may do: return
\* (TRUE) or raise (FALSE).
AssemblerOutcomes == BOOLEAN

\* A mutation of NextStep: the exception of a failed step is swallowed.
NextStepSwallowed(next, ok) == next

\* Where _build_cdo_context is after a step: at the next statement, or
\* left by the exception the step raised (nothing in lines 214-250 catches).
NextStep(next, ok) == IF ok THEN next ELSE "raised"

\* The entry of a step in the frame's log: <<step, ok>>.
StepDone(step, ok) == <<step, ok>>

StartContext ==
    [ pc |-> "start", birth_datetime |-> NoValue,
      server_tz |-> 0, utc_now |-> NoValue,
      current_datetime |-> NoValue, timezone_offset |-> 0,
      use_sidereal |-> FALSE, jd |-> <<0, 0>>,
      i |-> 1, failures |-> 0, transits |-> <<>>,
      steps |-> <<>>, returned |-> FALSE ]

InitCdo ==
    /\ ctx = StartContext
    /\ swe_tls = FALSE
    /\ swe_topo = [t \in Threads |-> <<>>]
    /\ ch = [t \in Threads |-> IdleFrame]
    /\ HousesIdle /\ TimeIdle /\ JulianIdle /\ RequestIdle /\ AgeIdle /\ ServiceIdle
    /\ SequenceIdle /\ AssetIdle /\ FallbackIdle

\* lines 218-220: _parse_date, _parse_time and replace(hour, minute).
CdoParse ==
    /\ ctx.pc = "start"
    /\ \E a \in CdoBirthTexts :
          LET birth_date == ParseDate(a.dob)
              hm == ParseTime(a.birth_time)
              ok == birth_date.ok /\ ReplaceAccepts(hm[1], hm[2])
          IN  ctx' = [ctx EXCEPT
                        !.pc = NextStep("chart", ok),
                        !.birth_datetime =
                            IF ok
                            THEN Datetime(birth_date.year, birth_date.month,
                                          birth_date.day, hm[1], hm[2], 0, 0)
                            ELSE NoValue,
                        !.steps = Append(@, StepDone("normalize", ok))]
    /\ UNCHANGED <<housesVars, timeVars, julianVars, chartVars, requestVars,
                   ageVars, serviceVars, sequenceVars, assetVars, fallbackVars>>

\* lines 223-229: calculate_chart(birth_datetime, ..., use_sidereal=True) is
\* called.
CdoCallChart ==
    /\ ctx.pc = "chart"
    /\ ch[1].pc = "idle"
    /\ CallChart(1, { a \in CdoChartInputs : a.birth_datetime = ctx.birth_datetime })

\* calculate_chart raised: so does _build_cdo_context.
CdoChartRaised ==
    /\ ctx.pc = "chart"
    /\ ch[1].pc = "raised"
    /\ ctx' = [ctx EXCEPT !.pc = NextStep("transits", FALSE),
                          !.steps = Append(@, StepDone("calculate_chart", FALSE))]
    /\ UNCHANGED <<housesVars, timeVars, julianVars, chartVars, requestVars,
                   ageVars, serviceVars,
                   sequenceVars, assetVars, fallbackVars>>

\* line 232: current_datetime = datetime.now()
CdoNow ==
    /\ ctx.pc = "chart"
    /\ ch[1].pc = "returned"
    /\ \E utc \in CdoInstants, server_tz \in ServerZones :
          ctx' = [ctx EXCEPT !.pc = NextStep("transits", TRUE),
                             !.steps = Append(@, StepDone("calculate_chart", TRUE)),
                             !.server_tz = server_tz,
                             !.utc_now = utc,
                             !.current_datetime = DatetimeNow(utc, server_tz)]
    /\ UNCHANGED <<housesVars, timeVars, julianVars, chartVars, requestVars,
                   ageVars, serviceVars,
                   sequenceVars, assetVars, fallbackVars>>

\* lines 233-237 and 309-326: get_current_transits(current_datetime,
\* latitude, longitude) up to the loop.
CdoCallTransits ==
    /\ ctx.pc = "transits"
    /\ ctx' = [ctx EXCEPT
                 !.pc = "loop",
                 !.timezone_offset = TransitDefaults.timezone_offset,
                 !.use_sidereal = TransitDefaults.use_sidereal,
                 !.jd = DatetimeToJulian(ctx.current_datetime,
                                         TransitDefaults.timezone_offset),
                 !.i = 1, !.failures = 0, !.transits = <<>>]
    /\ UNCHANGED <<housesVars, timeVars, julianVars, chartVars, requestVars,
                   ageVars, serviceVars,
                   sequenceVars, assetVars, fallbackVars>>

\* lines 327-345: one turn of the loop over PLANET_IDS; the flags carry no
\* FLG_TOPOCTR, so the library's observer is not used.
TransitPlanet(outcomes) ==
    /\ ctx.pc = "loop"
    /\ ctx.i <= Len(PLANET_NAMES)
    /\ \E ok \in outcomes :
          LET planet_name == PLANET_NAMES[ctx.i]
              skipped == TransitSkips(planet_name)
              failed == IF ok \/ skipped THEN 0 ELSE 1
              planet_longitude ==
                  CalcUtLongitude(ctx.jd, PLANET_IDS[planet_name], <<>>,
                                  ctx.use_sidereal)
              data == PlanetDataOf(planet_name, planet_longitude, <<>>)
          IN  /\ skipped => ok
              /\ ctx.failures + failed <= MaxCalcFailures
              /\ ctx' = [ctx EXCEPT
                           !.i = ctx.i + 1,
                           !.failures = ctx.failures + failed,
                           !.transits =
                               IF ok /\ ~skipped
                               THEN [ n \in DOMAIN ctx.transits \cup {planet_name} |->
                                        IF n = planet_name THEN data
                                        ELSE ctx.transits[n] ]
                               ELSE ctx.transits]
    /\ UNCHANGED <<housesVars, timeVars, julianVars, chartVars, requestVars,
                   ageVars, serviceVars,
                   sequenceVars, assetVars, fallbackVars>>

\* line 347: return transits
TransitReturn ==
    /\ ctx.pc = "loop"
    /\ ctx.i > Len(PLANET_NAMES)
    /\ ctx' = [ctx EXCEPT !.pc = NextStep("build", TRUE),
                          !.steps = Append(@, StepDone("get_current_transits", TRUE))]
    /\ UNCHANGED <<housesVars, timeVars, julianVars, chartVars, requestVars,
                   ageVars, serviceVars,
                   sequenceVars, assetVars, fallbackVars>>

\* lines 240-245: astro_calculator.build_cdo(chart_data, birth_date,
\* current_date, transit_planets).
CdoBuild ==
    /\ ctx.pc = "build"
    /\ \E ok \in AssemblerOutcomes :
          ctx' = [ctx EXCEPT !.pc = NextStep("summary", ok),
                             !.steps = Append(@, StepDone("build_cdo", ok))]
    /\ UNCHANGED <<housesVars, timeVars, julianVars, chartVars, requestVars,
                   ageVars, serviceVars, sequenceVars, assetVars, fallbackVars>>

\* lines 248-250: astro_calculator.build_cdo_summary(cdo), and the return of
\* the pair.
CdoSummary ==
    /\ ctx.pc = "summary"
    /\ \E ok \in AssemblerOutcomes :
          ctx' = [ctx EXCEPT !.pc = NextStep("done", ok),
                             !.steps = Append(@, StepDone("build_cdo_summary", ok)),
                             !.returned = (NextStep("done", ok) = "done")]
    /\ UNCHANGED <<housesVars, timeVars, julianVars, chartVars, requestVars,
                   ageVars, serviceVars,
                   sequenceVars, assetVars, fallbackVars>>

\* The next call of _build_cdo_context.
CdoBegin ==
    /\ ctx.pc \in {"done", "raised"}
    /\ ctx' = StartContext
    /\ ch' = [ch EXCEPT ![1] = IdleFrame]
    /\ UNCHANGED <<swe_tls, swe_topo, housesVars, timeVars, julianVars, requestVars,
                   ageVars, serviceVars,
                   sequenceVars, assetVars, fallbackVars>>

NextCdo ==
    \/ CdoParse
    \/ CdoCallChart
    \/ ChartSetTopo(1)
    \/ ChartHouses(1)
    \/ ChartSun(1, CalcOutcomes)
    \/ ChartAltitude(1, DayAltitude)
    \/ ChartPlanet(1, CalcOutcomes)
    \/ ChartReturn(1)
    \/ CdoChartRaised
    \/ CdoNow
    \/ CdoCallTransits
    \/ TransitPlanet(CalcOutcomes)
    \/ TransitReturn
    \/ CdoBuild
    \/ CdoSummary
    \/ CdoBegin

SpecCdo == InitCdo /\ [][NextCdo]_vars

\* The transit positions of the call have been computed (in part or whole).
TransitsComputed == ctx.pc \in {"loop", "build", "summary", "done"}

\* C11 (as claimed): the Julian Day used for the transits is that of the
\* UTC instant of the query, whatever the server's timezone.
C11_TransitJdFromUtc ==
    TransitsComputed => ctx.jd = DatetimeToJulian(ctx.utc_now, 0)

\* C12 (as claimed): the transit positions that are combined with the natal
\* chart are computed in the frame of the natal chart: sidereal for both or
\* tropical for both.
C12_SameFrame ==
    ctx.pc \in {"build", "done"} => ctx.use_sidereal = ch[1].use_sidereal


(***************************************************************************)
(* _calculate_age and the profection house of the fallback summary         *)
(* (horoscope_service.py, lines 179-187 and 513).                          *)
(*                                                                         *)
(* A birth date and a current date are chosen; the age is computed for the *)
(* current date and for the day after it, then the house for the age and   *)
(* for the age twelve years on.                                            *)
(***************************************************************************)
MaxAge == 40           \* birth years reach this far back from 2026

AgeBirthDates ==
    { <<y, 4, 20>> : y \in (2026 - MaxAge)..2026 }
    \cup { <<1996, 2, 29>>, <<1995, 12, 31>>, <<2000, 1, 1>> }

\* Days around a 20 April birthday, a 29 February, a year end; a day before
\* every birth date.
AgeCurrentDates ==
    { <<2026, 4, 18>>, <<2026, 4, 19>>, <<2026, 4, 20>>, <<2025, 4, 19>>,
      <<2026, 2, 28>>, <<2024, 2, 28>>, <<2024, 2, 29>>,
      <<2026, 12, 30>>, <<2026, 12, 31>>, <<1980, 6, 15>> }

InitAge ==
    /\ ag \in [ pc : {"init"}, birth_date : AgeBirthDates,
                current_date : AgeCurrentDates,
                age : {0}, age_next_day : {0},
                profection_house : {0}, house_twelve_on : {0} ]
    /\ HousesIdle /\ TimeIdle /\ JulianIdle /\ ChartIdle /\ RequestIdle
    /\ ServiceIdle /\ ContextIdle
    /\ SequenceIdle /\ AssetIdle /\ FallbackIdle

\* _calculate_age(birth_date, current_date), on two successive days.
AgeStep ==
    /\ ag.pc = "init"
    /\ ag' = [ag EXCEPT
                !.pc = "aged",
                !.age = CalculateAge(ag.birth_date, ag.current_date),
                !.age_next_day =
                    CalculateAge(ag.birth_date,
                                 DayAfter(ag.current_date[1], ag.current_date[2],
                                          ag.current_date[3]))]
    /\ UNCHANGED <<housesVars, timeVars, julianVars, chartVars, requestVars,
                   serviceVars, contextVars,
                   sequenceVars, assetVars, fallbackVars>>

\* _build_fallback_summary's profection_house for the age, and for the age
\* twelve years on.
ProfectStep ==
    /\ ag.pc = "aged"
    /\ ag' = [ag EXCEPT
                !.pc = "profected",
                !.profection_house = ProfectionHouse(ag.age),
                !.house_twelve_on = ProfectionHouse(ag.age + 12)]
    /\ UNCHANGED <<housesVars, timeVars, julianVars, chartVars, requestVars,
                   serviceVars, contextVars,
                   sequenceVars, assetVars, fallbackVars>>

NextAge == AgeStep \/ ProfectStep

SpecAge == InitAge /\ [][NextAge]_vars

\* (month, day) of c is earlier in the year than (month, day) of b.
EarlierInYear(c, b) == LexLess(<<c[2], c[3]>>, <<b[2], b[3]>>, 1)

\* The day after the current date is the anniversary of the birth date.
AnniversaryTomorrow ==
    LET next == DayAfter(ag.current_date[1], ag.current_date[2], ag.current_date[3])
    IN  /\ next[2] = ag.birth_date[2]
        /\ next[3] = ag.birth_date[3]
        /\ next[1] > ag.birth_date[1]

\* C13: the age is the difference of the years, less one exactly when the
\* current (month, day) is before the birth (month, day); it is 0 for a
\* current date before the birth date, never negative, never decreasing from
\* one day to the next, and one more on the anniversary than the day before.
C13_AgeBirthdayExact ==
    ag.pc \in {"aged", "profected"} =>
        LET b == ag.birth_date
            c == ag.current_date
        IN  /\ ag.age >= 0
            /\ ~LexLess(c, b, 1) =>
                  ag.age = c[1] - b[1] - (IF EarlierInYear(c, b) THEN 1 ELSE 0)
            /\ LexLess(c, b, 1) => ag.age = 0
            /\ ag.age_next_day >= ag.age
            /\ ag.age_next_day <= ag.age + 1
            /\ AnniversaryTomorrow => ag.age_next_day = ag.age + 1
            /\ (~AnniversaryTomorrow /\ <<b[2], b[3]>> # <<2, 29>>) =>
                  ag.age_next_day = ag.age

\* C13 witness: born 20 April 1995; on 19 April 2026 the age is 30, and 31
\* the day after.
C13_Witness ==
    /\ ag.pc = "aged"
    /\ ag.birth_date = <<1995, 4, 20>>
    /\ ag.current_date = <<2026, 4, 19>>
    /\ ag.age = 30
    /\ ag.age_next_day = 31

\* C14: the profection house is (age mod 12) + 1: in 1..12, the same twelve
\* years on, and 7 at age 30.
C14_ProfectionHouse ==
    ag.pc = "profected" =>
        /\ ag.profection_house \in 1..12
        /\ ag.profection_house = ag.house_twelve_on
        /\ \E q \in 0..(ag.age \div 12) : ag.age = 12 * q + ag.profection_house - 1
        /\ ag.age = 30 => ag.profection_house = 7

\* C14 witness: age 30, house 7, and house 7 again at 42.
C14_Witness ==
    /\ ag.pc = "profected"
    /\ ag.age = 30
    /\ ag.profection_house = 7
    /\ ag.house_twelve_on = 7


\* The sign and the degree within the sign of one PlanetData agree with its
\* longitude.
SignAndDegreeOf(p) ==
    LET sign_index == SignIndex(p.sign)
    IN  /\ p.longitude \in 0..359
        /\ sign_index \in 0..11
        /\ p.sign_degree \in 0..29
        /\ 30 * sign_index + p.sign_degree = p.longitude
        /\ p.sign = ZODIAC_SIGNS[sign_index + 1]

\* C15: for every planet of the natal chart, every transit planet and the
\* ascendant, the sign index is floor(L / 30) in 0..11, the degree within
\* the sign is L mod 30 in 0..29, 30 * index + degree = L, and the sign
\* stored is ZODIAC_SIGNS[index].
C15_SignAndDegree ==
    /\ \A n \in DOMAIN ch[1].planets : SignAndDegreeOf(ch[1].planets[n])
    /\ \A n \in DOMAIN ctx.transits : SignAndDegreeOf(ctx.transits[n])
    /\ ch[1].pc \in {"sun", "altitude", "planets", "returned"} =>
          /\ ch[1].ascendant \in 0..359
          /\ ch[1].asc_sign_index \in 0..11
          /\ ch[1].ascendant - 30 * ch[1].asc_sign_index \in 0..29

\* C15 witness: a CDO build whose natal chart and transits hold a body in
\* the first sign and a body in the last, one at the first degree of a sign
\* and one at the last.
C15_Witness ==
    /\ ctx.pc = "done"
    /\ \E n \in DOMAIN ch[1].planets : ch[1].planets[n].sign = "Aries"
    /\ \E n \in DOMAIN ctx.transits : ctx.transits[n].sign = "Pisces"
    /\ \E n \in DOMAIN ctx.transits : ctx.transits[n].sign_degree = 0
    /\ \E n \in DOMAIN ch[1].planets \cup DOMAIN ctx.transits :
          \/ n \in DOMAIN ch[1].planets /\ ch[1].planets[n].sign_degree = 29
          \/ n \in DOMAIN ctx.transits /\ ctx.transits[n].sign_degree = 29

\* The ten bodies Sun..Pluto.
TenBodies == { PLANET_NAMES[i] : i \in 1..10 }

\* C16: the transits never hold a lunar node: their keys are among the ten
\* bodies Sun..Pluto (all ten when no query failed); the natal chart holds
\* TrueNode whenever none of its queries failed.
C16_NoNodeInTransits ==
    /\ "TrueNode" \notin DOMAIN ctx.transits
    /\ DOMAIN ctx.transits \subseteq TenBodies
    /\ (ctx.pc \in {"build", "done"} /\ ctx.failures = 0) =>
          DOMAIN ctx.transits = TenBodies
    /\ (ch[1].pc = "returned" /\ ch[1].failures = 0) =>
          "TrueNode" \in DOMAIN ch[1].planets

\* C16 witness: a finished CDO build with all ten transit bodies, no node
\* among them, and TrueNode in the natal chart.
C16_Witness ==
    /\ ctx.pc = "done"
    /\ DOMAIN ctx.transits = TenBodies
    /\ "TrueNode" \in DOMAIN ch[1].planets


(***************************************************************************)
(* The life of the EphemerisService (ephemeris_service.py): the module's   *)
(* global instance is constructed when the module is imported (lines       *)
(* 357-360), and only if the swisseph library could be imported; then      *)
(* calculate_chart, get_current_transits and close are called on it.       *)
(* The environment chooses what the import and the construction find: the  *)
(* library, the ephemeris directory, the .se1 files in it.                 *)
(***************************************************************************)
MaxSe1Files == 2       \* .se1 files in the ephemeris directory: 0..MaxSe1Files
MaxServiceCalls == 3   \* calls made on the service after its construction

AyanamsaNames == {"LAHIRI", "raman", "unknown"}

\* AYANAMSA_MAP.get(ayanamsa.upper(), swe.SIDM_LAHIRI)
AyanamsaId(ayanamsa) ==
    CASE ayanamsa \in {"LAHIRI", "lahiri"} -> 1
      [] ayanamsa \in {"RAMAN", "raman"} -> 3
      [] ayanamsa \in {"KRISHNAMURTI", "krishnamurti"} -> 5
      [] ayanamsa \in {"FAGAN_BRADLEY", "fagan_bradley"} -> 0
      [] OTHER -> 1

\* The service when swisseph could not be imported: __init__ returns at once.
Uninitialized == [initialized |-> FALSE, using_moshier |-> FALSE, sid_mode |-> -1]

\* A mutation of EphemerisInit: an existing directory counts as holding the
\* data, whatever is in it.
EphemerisInitPathOnly(swisseph_available, path_exists, se1_files, ayanamsa) ==
    IF ~swisseph_available
    THEN Uninitialized
    ELSE [initialized |-> TRUE, using_moshier |-> ~path_exists,
          sid_mode |-> AyanamsaId(ayanamsa)]

\* EphemerisService.__init__ (lines 83-119): the fields it leaves, and the
\* sidereal mode it sets in the library (-1: not set).
EphemerisInit(swisseph_available, path_exists, se1_files, ayanamsa) ==
    IF ~swisseph_available
    THEN Uninitialized
    ELSE [initialized |-> TRUE,
          using_moshier |-> IF path_exists THEN se1_files = 0 ELSE TRUE,
          sid_mode |-> AyanamsaId(ayanamsa)]

NoService ==
    [ pc |-> "unloaded", swisseph_available |-> FALSE, path_exists |-> FALSE,
      se1_files |-> 0, initialized |-> FALSE, using_moshier |-> FALSE,
      ayanamsa_name |-> "", sid_mode |-> -1, calls |-> 0, last |-> "none",
      closed |-> FALSE ]

InitService ==
    /\ svc = NoService
    /\ HousesIdle /\ TimeIdle /\ JulianIdle /\ ChartIdle /\ RequestIdle
    /\ AgeIdle /\ ContextIdle
    /\ SequenceIdle /\ AssetIdle /\ FallbackIdle

\* The import of ephemeris_service.py: the global instance is
\* EphemerisService(...) if SWISSEPH_AVAILABLE else None.
ImportService ==
    /\ svc.pc = "unloaded"
    /\ \E swisseph_available \in BOOLEAN, path_exists \in BOOLEAN,
          se1_files \in 0..MaxSe1Files, ayanamsa \in AyanamsaNames :
          LET init == EphemerisInit(swisseph_available, path_exists,
                                    IF path_exists THEN se1_files ELSE 0, ayanamsa)
          IN  svc' = IF swisseph_available
                     THEN [ NoService EXCEPT
                              !.pc = "constructed",
                              !.swisseph_available = TRUE,
                              !.path_exists = path_exists,
                              !.se1_files = IF path_exists THEN se1_files ELSE 0,
                              !.ayanamsa_name = ayanamsa,
                              !.initialized = init.initialized,
                              !.using_moshier = init.using_moshier,
                              !.sid_mode = init.sid_mode ]
                     ELSE [ NoService EXCEPT !.pc = "absent" ]
    /\ UNCHANGED <<housesVars, timeVars, julianVars, chartVars, requestVars,
                   ageVars, contextVars,
                   sequenceVars, assetVars, fallbackVars>>

\* calculate_chart or get_current_transits on the service: RuntimeError when
\* it is not initialized (lines 171-172, 309-310); the service's fields are
\* not assigned.
ServiceCall(operation) ==
    /\ svc.pc = "constructed"
    /\ svc.calls < MaxServiceCalls
    /\ svc' = [svc EXCEPT
                 !.calls = svc.calls + 1,
                 !.last = IF svc.initialized THEN operation ELSE "raised"]
    /\ UNCHANGED <<housesVars, timeVars, julianVars, chartVars, requestVars,
                   ageVars, contextVars,
                   sequenceVars, assetVars, fallbackVars>>

\* close(): swe.close() (lines 349-353).
ServiceClose ==
    /\ svc.pc = "constructed"
    /\ svc.calls < MaxServiceCalls
    /\ svc' = [svc EXCEPT !.calls = svc.calls + 1, !.last = "close",
                          !.closed = TRUE]
    /\ UNCHANGED <<housesVars, timeVars, julianVars, chartVars, requestVars,
                   ageVars, contextVars,
                   sequenceVars, assetVars, fallbackVars>>

NextService ==
    \/ ImportService
    \/ ServiceCall("calculate_chart")
    \/ ServiceCall("get_current_transits")
    \/ ServiceClose

SpecService == InitService /\ [][NextService]_vars

\* The high-precision data was not there at construction.
DataUnavailable == ~svc.path_exists \/ svc.se1_files = 0

\* C17: a constructed service is initialized, with using_moshier TRUE exactly
\* when the directory was missing or held no .se1 file; the flag keeps that
\* value through every later calculate_chart, get_current_transits and close.
C17_DegradesToMoshier ==
    svc.pc = "constructed" =>
        /\ svc.initialized
        /\ svc.using_moshier <=> DataUnavailable
        /\ svc.last # "raised"

\* C17 witness: the directory exists but holds no .se1 file; after a chart, a
\* transit query and a close the service is initialized and still on Moshier.
C17_Witness ==
    /\ svc.pc = "constructed"
    /\ svc.path_exists /\ svc.se1_files = 0
    /\ svc.calls = 3 /\ svc.closed /\ svc.last = "get_current_transits"
    /\ svc.initialized /\ svc.using_moshier


\* The steps of _build_cdo_context in the order of lines 218-248.
CdoOrder ==
    << "normalize", "calculate_chart", "get_current_transits",
       "build_cdo", "build_cdo_summary" >>

\* The steps run so far are the first steps of CdoOrder, in order.
StepsInOrder ==
    /\ Len(ctx.steps) <= Len(CdoOrder)
    /\ \A i \in 1..Len(ctx.steps) : ctx.steps[i][1] = CdoOrder[i]

\* Every step that ran, ran after the success of all steps before it.
EarlierStepsSucceeded ==
    \A i \in 1..(Len(ctx.steps) - 1) : ctx.steps[i][2]

\* The last step run has failed.
LastStepFailed ==
    Len(ctx.steps) > 0 /\ ~ctx.steps[Len(ctx.steps)][2]

\* C30: within _build_cdo_context the steps run in the order normalize,
\* calculate_chart, get_current_transits, build_cdo, build_cdo_summary, each
\* only after the success of those before it (the chart is computed only
\* after the birth date-time, the transits only after the chart returned);
\* after a failed step no further step runs and nothing is returned; a pair
\* is returned only after all five steps succeeded.
C30_CdoDependencyOrder ==
    /\ [](StepsInOrder /\ EarlierStepsSucceeded)
    /\ [](ch[1].pc # "idle" => (Len(ctx.steps) >= 1 /\ ctx.steps[1][2]))
    /\ [](ctx.pc = "loop" => (ch[1].pc = "returned" /\ Len(ctx.steps) = 2))
    /\ [](LastStepFailed => (ctx.pc = "raised" /\ ~ctx.returned))
    /\ [](ctx.returned =>
            (Len(ctx.steps) = Len(CdoOrder) /\ \A i \in 1..Len(ctx.steps) : ctx.steps[i][2]))
    /\ [][ctx.pc = "raised" => ctx'.pc \in {"raised", "start"}]_vars

\* C30 witness: the chart and the transits were computed and build_cdo
\* raised: build_cdo_summary did not run and nothing was returned.
C30_Witness ==
    /\ ctx.pc = "raised"
    /\ Len(ctx.steps) = 4
    /\ ctx.steps[3] = StepDone("get_current_transits", TRUE)
    /\ ctx.steps[4] = StepDone("build_cdo", FALSE)
    /\ ch[1].pc = "returned"
    /\ ~ctx.returned

(***************************************************************************)
(* Sequential use of the service: one caller calls calculate_chart and     *)
(* get_current_transits one after the other (ephemeris_service.py, lines   *)
(* 150-246 and 289-347) and keeps the first chart returned to it.  The     *)
(* library answers every query (its answer is a function of the Julian     *)
(* Day, the body, the flags and the observer set).                         *)
(***************************************************************************)
SeqInputs == ChartArgs(ChartDatetimes, {NewYork, Delhi}, {330}, BOOLEAN)

\* The arguments of the get_current_transits calls.
SeqTransitArgs == [ current_datetime : CdoInstants, use_sidereal : BOOLEAN ]

\* The arguments of the call of frame f.
InputsOf(f) ==
    [ birth_datetime |-> f.birth_datetime, place |-> <<f.longitude, f.latitude>>,
      timezone_offset |-> f.timezone_offset, use_sidereal |-> f.use_sidereal ]

\* What the ChartData returned from frame f holds (lines 236-246): the
\* Julian Day, the ascendant and the planets with their houses.
ChartResult(f) ==
    [ julian_day |-> f.jd, ascendant |-> f.ascendant,
      asc_sign_index |-> f.asc_sign_index,
      planets |-> [ n \in DOMAIN f.planets |->
                      [ longitude |-> f.planets[n].longitude,
                        sign |-> f.planets[n].sign,
                        sign_degree |-> f.planets[n].sign_degree,
                        house |-> f.planets[n].house ] ] ]

InitSeq ==
    /\ seq = [ pc |-> "first", inputs |-> NoValue, result |-> NoValue,
               others |-> {} ]
    /\ ctx = StartContext
    /\ swe_tls = FALSE
    /\ swe_topo = [t \in Threads |-> <<>>]
    /\ ch = [t \in Threads |-> IdleFrame]
    /\ HousesIdle /\ TimeIdle /\ JulianIdle /\ RequestIdle /\ AgeIdle /\ ServiceIdle
    /\ AssetIdle /\ FallbackIdle

\* The caller calls calculate_chart (no other call is in progress).
SeqCall ==
    /\ ctx.pc # "loop"
    /\ ch[1].pc = "idle"
    /\ CallChart(1, SeqInputs)

\* The caller takes the chart returned: it keeps the first one, and of a
\* later one it notes in what its arguments differed from the first call's.
SeqTake ==
    /\ ch[1].pc = "returned"
    /\ seq' = IF seq.pc = "first"
              THEN [ pc |-> "between", inputs |-> InputsOf(ch[1]),
                     result |-> ChartResult(ch[1]), others |-> {} ]
              ELSE [ seq EXCEPT !.others =
                       @ \cup (IF InputsOf(ch[1]).place # seq.inputs.place
                               THEN {"observer"} ELSE {})
                         \cup (IF ch[1].use_sidereal # seq.inputs.use_sidereal
                               THEN {"frame"} ELSE {}) ]
    /\ ch' = [ch EXCEPT ![1] = IdleFrame]
    /\ UNCHANGED <<swe_tls, swe_topo, housesVars, timeVars, julianVars, requestVars,
                   ageVars, serviceVars, contextVars, assetVars, fallbackVars>>

\* The caller calls get_current_transits (lines 309-326), after its first
\* chart.
SeqCallTransits ==
    /\ seq.pc = "between"
    /\ ch[1].pc = "idle"
    /\ ctx.pc \in {"start", "build"}
    /\ \E a \in SeqTransitArgs :
          ctx' = [ StartContext EXCEPT
                     !.pc = "loop",
                     !.current_datetime = a.current_datetime,
                     !.timezone_offset = TransitDefaults.timezone_offset,
                     !.use_sidereal = a.use_sidereal,
                     !.jd = DatetimeToJulian(a.current_datetime,
                                             TransitDefaults.timezone_offset) ]
    /\ seq' = [seq EXCEPT !.others = @ \cup {"transits"}]
    /\ UNCHANGED <<housesVars, timeVars, julianVars, chartVars, requestVars,
                   ageVars, serviceVars, assetVars, fallbackVars>>

NextSeq ==
    \/ SeqCall
    \/ ChartSetTopo(1)
    \/ ChartHouses(1)
    \/ ChartSun(1, {TRUE})
    \/ ChartAltitude(1, DayAltitude)
    \/ ChartPlanet(1, {TRUE})
    \/ ChartReturn(1)
    \/ SeqTake
    \/ SeqCallTransits
    \/ TransitPlanet({TRUE})
    \/ TransitReturn

SpecSeq == InitSeq /\ [][NextSeq]_vars

\* A chart has been returned for the arguments of the first call, after it.
SameInputsAgain ==
    /\ seq.pc = "between"
    /\ ch[1].pc = "returned"
    /\ InputsOf(ch[1]) = seq.inputs

\* C23: under sequential use, a calculate_chart call with the arguments of
\* an earlier call returns the same Julian Day, ascendant, houses and planet
\* positions, whatever calculate_chart and get_current_transits calls were
\* made in between.
C23_SequentialDeterminism ==
    SameInputsAgain => ChartResult(ch[1]) = seq.result

\* C23 witness: the arguments of the first call were computed again after a
\* chart for another observer, a chart in the other frame and a transits
\* call.
C23_Witness ==
    /\ SameInputsAgain
    /\ "observer" \in seq.others
    /\ "frame" \in seq.others
    /\ "transits" \in seq.others
    /\ DOMAIN ch[1].planets = DOMAIN PLANET_IDS

(***************************************************************************)
(* The lucky assets of a generated card (horoscope_service.py, lines       *)
(* 443-483).  A text is the sequence of its characters; the colors_to_      *)
(* tickers mapping is the sequence of its keys in the order of the file    *)
(* (every key has a non-empty entry); the color the language model         *)
(* answered may be missing.                                                *)
(***************************************************************************)
MaxMappingKeys == 3   \* colors_to_tickers has at most this many keys

Gold == <<"G", "o", "l", "d">>
GoldLower == <<"g", "o", "l", "d">>
Red == <<"R", "e", "d">>
Teal == <<"T", "e", "a", "l">>

KeyNames == { Gold, GoldLower, Red, Teal }

\* The colors_to_tickers mappings: up to MaxMappingKeys distinct keys.
Mappings ==
    UNION { { m \in [1..n -> KeyNames] :
                \A i, j \in 1..n : i # j => m[i] # m[j] } : n \in 0..MaxMappingKeys }

NoColor == [given |-> FALSE, text |-> <<>>]
Color(text) == [given |-> TRUE, text |-> text]

\* The colors answered: none, the empty text, keys, keys in another case,
\* and colors of no mapping.
AnsweredColors ==
    { NoColor, Color(<<>>), Color(Gold), Color(GoldLower), Color(Red),
      Color(<<"G", "O", "L", "D">>), Color(<<"r", "E", "d">>),
      Color(<<"S", "k", "y">>), Color(<<"A", "m", "b", "e", "r">>),
      Color(<<"C", "r", "i", "m", "s", "o", "n">>) }

\* str.lower() on the letters in use.
LowerChar(c) ==
    CASE c = "G" -> "g" [] c = "O" -> "o" [] c = "L" -> "l" [] c = "D" -> "d"
      [] c = "R" -> "r" [] c = "E" -> "e" [] c = "T" -> "t" [] c = "S" -> "s"
      [] c = "A" -> "a" [] c = "C" -> "c"
      [] OTHER -> c

Lower(text) == [i \in 1..Len(text) |-> LowerChar(text[i])]

\* mapping.get(color): the color is a key.
IsKey(mapping, color) ==
    color.given /\ \E i \in 1..Len(mapping) : mapping[i] = color.text

\* The loop at lines 455-460: the index of the first key equal to the color
\* when both are lowered, or 0.
RECURSIVE CaseInsensitiveMatch(_, _, _)
CaseInsensitiveMatch(mapping, color, i) ==
    IF i > Len(mapping) THEN 0
    ELSE IF Lower(mapping[i]) = Lower(color.text) THEN i
    ELSE CaseInsensitiveMatch(mapping, color, i + 1)

\* A mutation of EnrichLuckyAssets: a color that matches no key is kept.
EnrichLuckyAssetsKeepsColor(mapping, color) ==
    LET truthy == color.given /\ color.text # <<>>
        match == IF ~IsKey(mapping, color) /\ truthy
                 THEN CaseInsensitiveMatch(mapping, color, 1) ELSE 0
    IN  IF match > 0 THEN Color(mapping[match]) ELSE color

\* Lines 443-480: the color of card_data["back"]["lucky_assets"] after the
\* enrichment.
EnrichLuckyAssets(mapping, color) ==
    LET truthy == color.given /\ color.text # <<>>
        direct == IsKey(mapping, color)
        match == IF ~direct /\ truthy
                 THEN CaseInsensitiveMatch(mapping, color, 1) ELSE 0
        color_or_empty == IF truthy THEN color.text ELSE <<>>
        idx == IF Len(mapping) > 0 THEN Len(color_or_empty) % Len(mapping) ELSE 0
    IN  IF direct THEN color
        ELSE IF match > 0 THEN Color(mapping[match])
        ELSE IF Len(mapping) > 0 THEN Color(mapping[idx + 1])
        ELSE color

\* LuckyAssets(**lucky_assets): color is a required str.
ValidLuckyAssets(color) == color.given

InitAssets ==
    /\ la \in [ pc : {"answered"}, mapping : Mappings, color : AnsweredColors,
                lucky_color : {NoColor}, valid : {FALSE} ]
    /\ HousesIdle /\ TimeIdle /\ JulianIdle /\ ChartIdle /\ RequestIdle
    /\ AgeIdle /\ ServiceIdle /\ ContextIdle /\ SequenceIdle /\ FallbackIdle

\* generate_horoscope lines 443-483: the enrichment, then the validation.
EnrichStep ==
    /\ la.pc = "answered"
    /\ LET enriched == EnrichLuckyAssets(la.mapping, la.color)
       IN  la' = [la EXCEPT !.pc = "validated",
                            !.lucky_color = enriched,
                            !.valid = ValidLuckyAssets(enriched)]
    /\ UNCHANGED <<housesVars, timeVars, julianVars, chartVars, requestVars,
                   ageVars, serviceVars, contextVars, sequenceVars, fallbackVars>>

NextAssets == EnrichStep

SpecAssets == InitAssets /\ [][NextAssets]_vars

\* The keys of the mapping that equal the text when both are lowered.
KeysLike(mapping, text) ==
    { i \in 1..Len(mapping) : Lower(mapping[i]) = Lower(text) }

\* C27: with a non-empty colors_to_tickers mapping the card passes the
\* color check and its lucky color is a key of the mapping: the color
\* answered when that is a key; else the first key equal to it up to case;
\* else (no such key, or no color) the key at index len(color) mod
\* len(mapping).
C27_LuckyColorIsKey ==
    (la.pc = "validated" /\ Len(la.mapping) > 0) =>
        LET text == la.color.text
            like == KeysLike(la.mapping, text)
        IN  /\ la.valid
            /\ \E i \in 1..Len(la.mapping) : la.lucky_color.text = la.mapping[i]
            /\ IsKey(la.mapping, la.color) => la.lucky_color = la.color
            /\ (~IsKey(la.mapping, la.color) /\ la.color.given /\ text # <<>>
                  /\ like # {}) =>
                    /\ la.lucky_color.text = la.mapping[CHOOSE i \in like :
                                                          \A j \in like : i <= j]
            /\ (~la.color.given \/ text = <<>> \/ like = {}) =>
                    la.lucky_color.text =
                        la.mapping[(Len(text) % Len(la.mapping)) + 1]

\* C27 witness: "Amber" is no key of a mapping of three keys; the card got
\* the key at index 5 mod 3 = 2, which is not the first key.
C27_Witness ==
    /\ la.pc = "validated"
    /\ la.mapping = <<Gold, Red, Teal>>
    /\ la.color = Color(<<"A", "m", "b", "e", "r">>)
    /\ la.lucky_color = Color(Teal)
    /\ la.valid

(***************************************************************************)
(* _get_fallback_zodiac (horoscope_service.py, lines 252-292) on every     *)
(* day of the calendar, 29 February included.                              *)
(***************************************************************************)
LeapYear == 1996

InitZodiac ==
    /\ \E month \in 1..12 :
          \E day \in 1..DaysInMonth(LeapYear, month) :
              fb = [ pc |-> "date", day |-> day, month |-> month,
                     hits |-> {}, sign |-> NoValue ]
    /\ HousesIdle /\ TimeIdle /\ JulianIdle /\ ChartIdle /\ RequestIdle
    /\ AgeIdle /\ ServiceIdle /\ ContextIdle /\ SequenceIdle /\ AssetIdle

\* zodiac = self._get_fallback_zodiac(birth_date.day, birth_date.month);
\* hits notes which of the conditions held for the date.
ZodiacStep ==
    /\ fb.pc = "date"
    /\ fb' = [fb EXCEPT !.pc = "zodiac",
                        !.hits = FallbackZodiacHits(fb.day, fb.month),
                        !.sign = GetFallbackZodiac(fb.day, fb.month)]
    /\ UNCHANGED <<housesVars, timeVars, julianVars, chartVars, requestVars,
                   ageVars, serviceVars, contextVars, sequenceVars, assetVars>>

NextZodiac == ZodiacStep

SpecZodiac == InitZodiac /\ [][NextZodiac]_vars

\* The ranges documented at lines 266-277: sign, first day, last day, each
\* day as <<month, day>>.
DocumentedRanges ==
    << <<"Aries", <<3, 21>>, <<4, 19>>>>, <<"Taurus", <<4, 20>>, <<5, 20>>>>,
       <<"Gemini", <<5, 21>>, <<6, 21>>>>, <<"Cancer", <<6, 22>>, <<7, 22>>>>,
       <<"Leo", <<7, 23>>, <<8, 22>>>>, <<"Virgo", <<8, 23>>, <<9, 22>>>>,
       <<"Libra", <<9, 23>>, <<10, 23>>>>, <<"Scorpio", <<10, 24>>, <<11, 22>>>>,
       <<"Sagittarius", <<11, 23>>, <<12, 21>>>>, <<"Capricorn", <<12, 22>>, <<1, 19>>>>,
       <<"Aquarius", <<1, 20>>, <<2, 18>>>>, <<"Pisces", <<2, 19>>, <<3, 20>>>> >>

\* Day a of the year is not after day b.
NotAfter(a, b) == a[1] < b[1] \/ (a[1] = b[1] /\ a[2] <= b[2])

\* The date is within the range first..last, which may span the new year.
InRange(date, first, last) ==
    IF NotAfter(first, last)
    THEN NotAfter(first, date) /\ NotAfter(date, last)
    ELSE NotAfter(first, date) \/ NotAfter(date, last)

\* The signs whose documented range contains the date.
DocumentedSigns(date) ==
    { DocumentedRanges[i][1] : i \in { j \in 1..12 :
          InRange(date, DocumentedRanges[j][2], DocumentedRanges[j][3]) } }

\* C28: for every day of the calendar exactly one of the twelve conditions
\* holds, the sign returned is the one whose documented range contains the
\* day, and the final default is not reached.
C28_ZodiacTotalUnambiguous ==
    fb.pc = "zodiac" =>
        /\ Cardinality(fb.hits) = 1
        /\ DocumentedSigns(<<fb.month, fb.day>>) = {fb.sign}

\* C28 witness: 29 February is Pisces.
C28_Witness ==
    /\ fb.pc = "zodiac"
    /\ fb.month = 2 /\ fb.day = 29
    /\ fb.sign = "Pisces"
    /\ fb.hits = {12}

(***************************************************************************)
(* _build_fallback_summary (horoscope_service.py, lines 503-526).          *)
(***************************************************************************)
MaxSummaryAge == 25   \* the ages handed to _build_fallback_summary: 0..MaxSummaryAge

\* The dob texts: the 15th of every month, dates in other formats, and
\* texts that do not parse.
SummaryDobs ==
    { DobText("iso", 1990, m, 15) : m \in 1..12 }
    \cup { DobText("slash", 4, 20, 1995), DobText("iso", 1996, 2, 29),
           DobText("iso", 1995, 2, 29), DobText("words", 0, 0, 0),
           DobText("empty", 0, 0, 0) }

InitSummary ==
    /\ fb \in [ pc : {"args"}, dob : SummaryDobs,
                birth_time : {TimeText("hm", 16, 30, "")},
                age : 0..MaxSummaryAge, summary : {NoSummary} ]
    /\ HousesIdle /\ TimeIdle /\ JulianIdle /\ ChartIdle /\ RequestIdle
    /\ AgeIdle /\ ServiceIdle /\ ContextIdle /\ SequenceIdle /\ AssetIdle

\* cdo_summary = self._build_fallback_summary(dob, birth_time, age)
SummaryStep ==
    /\ fb.pc = "args"
    /\ fb' = [fb EXCEPT !.pc = "summary",
                        !.summary = BuildFallbackSummary(fb.dob, fb.birth_time, fb.age)]
    /\ UNCHANGED <<housesVars, timeVars, julianVars, chartVars, requestVars,
                   ageVars, serviceVars, contextVars, sequenceVars, assetVars>>

NextSummary == SummaryStep

SpecSummary == InitSummary /\ [][NextSummary]_vars

\* The fields of a CDOSummary.
SummaryFields ==
    { "sect", "ascendant", "is_cusp", "time_lord", "profection_house",
      "profection_theme", "major_aspect", "time_lord_activation",
      "dignity_warning", "malefic_severity" }

\* The domicile ruler of a sign (traditional rulerships), by the sign's
\* index from Aries.
DomicileRuler(sign) ==
    << "Mars", "Venus", "Mercury", "Moon", "Sun", "Mercury",
       "Venus", "Mars", "Jupiter", "Saturn", "Saturn", "Jupiter" >>[SignIndex(sign) + 1]

\* C29: for every dob text, parseable or not, and every age from 0, the
\* fallback summary has exactly the ten CDOSummary fields, a profection
\* house in 1..12, no dignity warning, no cusp, a malefic severity of the
\* four labels, and as time lord the domicile ruler of the estimated sign
\* in ascendant.
C29_FallbackSummaryShape ==
    fb.pc = "summary" =>
        /\ DOMAIN fb.summary = SummaryFields
        /\ fb.summary.profection_house \in 1..12
        /\ fb.summary.dignity_warning = ""
        /\ fb.summary.is_cusp = FALSE
        /\ fb.summary.malefic_severity \in {"benign", "constructive", "tense", "severe"}
        /\ fb.summary.ascendant[2] = "(estimated)"
        /\ fb.summary.time_lord = DomicileRuler(fb.summary.ascendant[1])

\* C29 witness: a date of words at age 23: Aries (estimated), Mars, the
\* twelfth house.
C29_Witness ==
    /\ fb.pc = "summary"
    /\ fb.dob.shape = "words"
    /\ fb.age = 23
    /\ fb.summary.ascendant = <<"Aries", "(estimated)">>
    /\ fb.summary.time_lord = "Mars"
    /\ fb.summary.profection_house = 12

=============================================================================
